---- MODULE Spec2Model ----
(***************************************************************************)
(* snapvault: content-addressed chunk store, snapshot manifests, chunk     *)
(* index, and the backup / restore / delete commands of the library crate. *)
(*                                                                         *)
(* The repository on disk is the state: the chunk files, the manifest      *)
(* files, index.json and the per-snapshot directories under data/.  One    *)
(* command runs at a time (the repository is single-writer); a command is  *)
(* a sequence of I/O steps and may be killed, or fail with an I/O error,   *)
(* between any two of them.                                                *)
(***************************************************************************)
EXTENDS Integers, Sequences, FiniteSets, TLC

\* ------------------------------------------------------------------ bounds
\* Snapshot ids handed out by backup: 1..MaxSnapshots.
MaxSnapshots == 2

\* chunking.rs DEFAULT_CHUNK_SIZE, scaled from 1 MiB to 2 bytes.
DEFAULT_CHUNK_SIZE == 2

\* The byte alphabet, the relative paths of a source tree (each a sequence of
\* path components), and the file
\* contents a source file can have: an empty file, a file of exactly one
\* chunk, and a file of one full chunk followed by a short last chunk.
Byte == {0, 1}
Paths == {<<"a">>, <<"d", "b">>}
Contents == {<<>>, <<0, 1>>, <<0, 1, 1>>}

\* A source tree: a function from the relative paths of its regular files to
\* their bytes.
Trees == UNION {[ps -> Contents] : ps \in SUBSET Paths}

\* Every byte string a chunk file can hold.
ByteSeqs == UNION {[1..n -> Byte] : n \in 0..DEFAULT_CHUNK_SIZE}

SnapshotIds == 1..MaxSnapshots

\* The longest file handed to the chunker by itself, and the number of read
\* calls of one chunk_file whose outcome is chosen.
MaxFileLen == 4
MaxReads == 2

\* How many times the source tree is touched by another process while one
\* backup runs.
MaxSourceChanges == 1

Min(a, b) == IF a < b THEN a ELSE b

Range(s) == {s[i] : i \in DOMAIN s}

\* ---------------------------------------------------------------- chunking
\* hash_bytes: the BLAKE3 digest, modelled as an injective tag of the bytes.
hash_bytes(data) == [blake3 |-> data]

\* hash_file: the digest of the whole file, read in 64 KiB pieces.
hash_file(content) == [blake3 |-> content]

ChunkIds == {hash_bytes(d) : d \in ByteSeqs \ {<<>>}}

\* Chunker::new().chunk_size
chunk_size == DEFAULT_CHUNK_SIZE

\* Chunker::chunk_file: windows of chunk_size bytes from offset on, the last
\* one possibly shorter, none for an empty rest.
RECURSIVE chunk_from(_, _)
chunk_from(content, offset) ==
    LET total_read == Min(chunk_size, Len(content) - offset)
    IN  IF total_read = 0
        THEN <<>>
        ELSE <<[hash   |-> hash_bytes(SubSeq(content, offset + 1, offset + total_read)),
                size   |-> total_read,
                offset |-> offset]>>
             \o chunk_from(content, offset + total_read)

chunk_file(content) == chunk_from(content, 0)

\* chunking.rs MIN_CHUNK_SIZE and MAX_CHUNK_SIZE, scaled from 64 KiB and
\* 16 MiB to 1 and 3 bytes.
MIN_CHUNK_SIZE == 1
MAX_CHUNK_SIZE == 3

\* A with_size that takes the size asked for as it is.
with_size_unclamped(size) == size

\* Chunker::with_size: the size asked for, clamped.
with_size(size) ==
    IF size < MIN_CHUNK_SIZE THEN MIN_CHUNK_SIZE
    ELSE IF size > MAX_CHUNK_SIZE THEN MAX_CHUNK_SIZE
    ELSE size

\* A chunk_bytes that does not advance the offset it records.
RECURSIVE chunk_bytes_offset_zero(_, _, _)
chunk_bytes_offset_zero(data, size, offset) ==
    IF offset >= Len(data)
    THEN <<>>
    ELSE LET chunk_data == SubSeq(data, offset + 1, Min(offset + size, Len(data)))
         IN  <<[hash   |-> hash_bytes(chunk_data),
                size   |-> Len(chunk_data),
                offset |-> 0]>>
             \o chunk_bytes_offset_zero(data, size, offset + Len(chunk_data))

\* Chunker::chunk_bytes: data.chunks(chunk_size), each with its hash, its
\* length and the running offset.
RECURSIVE chunk_bytes_from(_, _, _)
chunk_bytes_from(data, size, offset) ==
    IF offset >= Len(data)
    THEN <<>>
    ELSE LET chunk_data == SubSeq(data, offset + 1, Min(offset + size, Len(data)))
         IN  <<[hash   |-> hash_bytes(chunk_data),
                size   |-> Len(chunk_data),
                offset |-> offset]>>
             \o chunk_bytes_from(data, size, offset + Len(chunk_data))

chunk_bytes(data, size) == chunk_bytes_from(data, size, 0)

\* A read loop in which one short read ends the chunk.
RECURSIVE fill_buffer_one_read(_, _, _, _, _)
fill_buffer_one_read(content, size, pos, buffer, reads) ==
    LET want  == size - Len(buffer)
        avail == Len(content) - pos
        n     == IF reads = <<>> THEN Min(want, avail)
                 ELSE Min(Head(reads), Min(want, avail))
        rest  == IF reads = <<>> THEN <<>> ELSE Tail(reads)
    IN  IF reads # <<>> /\ Head(reads) = 0
        THEN fill_buffer_one_read(content, size, pos, buffer, rest)
        ELSE [buffer |-> buffer \o SubSeq(content, pos + 1, pos + n),
              pos |-> pos + n, reads |-> rest]

\* Chunker::chunk_file, lines 148-156: reader.read into buffer[total_read..]
\* until the buffer holds chunk_size bytes or the file ends.  `reads` is what
\* the next read calls do: 0 for an Interrupted error, n > 0 for a read that
\* returns at most n bytes; when it is used up every read returns all it can.
RECURSIVE fill_buffer(_, _, _, _, _)
fill_buffer(content, size, pos, buffer, reads) ==
    LET want  == size - Len(buffer)
        avail == Len(content) - pos
        n     == IF reads = <<>> THEN Min(want, avail)
                 ELSE Min(Head(reads), Min(want, avail))
        rest  == IF reads = <<>> THEN <<>> ELSE Tail(reads)
    IN  IF want <= 0 THEN [buffer |-> buffer, pos |-> pos, reads |-> reads]
        ELSE IF reads # <<>> /\ Head(reads) = 0
        THEN fill_buffer(content, size, pos, buffer, rest)
        ELSE IF n = 0 THEN [buffer |-> buffer, pos |-> pos, reads |-> rest]
        ELSE fill_buffer(content, size, pos + n,
                         buffer \o SubSeq(content, pos + 1, pos + n), rest)

\* A chunk_file that returns the whole file as one chunk.
chunk_file_reads_whole(content, size, reads) ==
    IF content = <<>> THEN <<>>
    ELSE <<[hash |-> hash_bytes(content), size |-> Len(content), offset |-> 0]>>

\* Chunker::chunk_file, lines 146-172, for a chunker of any size and a reader
\* that may return short reads and Interrupted errors.
RECURSIVE chunk_file_from(_, _, _, _)
chunk_file_from(content, size, offset, reads) ==
    LET r == fill_buffer(content, size, offset, <<>>, reads)
        total_read == Len(r.buffer)
    IN  IF total_read = 0
        THEN <<>>
        ELSE <<[hash   |-> hash_bytes(r.buffer),
                size   |-> total_read,
                offset |-> offset]>>
             \o chunk_file_from(content, size, offset + total_read, r.reads)

chunk_file_reads(content, size, reads) == chunk_file_from(content, size, 0, reads)

\* backup.rs read_chunk: seek to offset, read_exact size bytes.
read_chunk(content, offset, size) ==
    IF offset + size <= Len(content)
    THEN [ok |-> TRUE,  data |-> SubSeq(content, offset + 1, offset + size)]
    ELSE [ok |-> FALSE, data |-> <<>>]

\* ------------------------------------------------------------- chunk store
\* The chunk directory is a function from the ids that have a file to the
\* bytes of that file.

\* ChunkStore::contains / path.exists()
contains(st, hash) == hash \in DOMAIN st

\* A store that takes every chunk for one it already holds.
AlwaysExists(st, hash, data) == "exists"

\* A store that writes the chunk again when its file is already there.
store_check_rewrite(st, hash, data) ==
    IF hash_bytes(data) # hash THEN "mismatch" ELSE "create"

\* A store that does not compare the hash of the bytes with the id.
store_check_unverified(st, hash, data) ==
    IF contains(st, hash) THEN "exists" ELSE "create"

\* ChunkStore::store up to the point where it either returns or creates the
\* file: "exists" (return Ok(false)), "mismatch" (return Err), "create".
store_check(st, hash, data) ==
    IF contains(st, hash) THEN "exists"
    ELSE IF hash_bytes(data) # hash THEN "mismatch"
    ELSE "create"

\* fs::File::create(&path): the file exists and is empty.
file_create(st, hash) == [h \in DOMAIN st \cup {hash} |-> IF h = hash THEN <<>> ELSE st[h]]

\* One write(2) of write_all: the next byte of data reaches the file.
file_write(st, hash, data) ==
    [st EXCEPT ![hash] = Append(st[hash], data[Len(st[hash]) + 1])]

\* A read that returns the bytes of the file without hashing them.
read_unverified(st, hash) ==
    IF ~contains(st, hash)
    THEN [ok |-> FALSE, err |-> "ChunkNotFound", data |-> <<>>]
    ELSE [ok |-> TRUE, err |-> "", data |-> st[hash]]

\* ChunkStore::read.  Both errors are SnapVaultError::Other: "ChunkNotFound"
\* is the one with the message "Chunk not found", "ChunkCorrupted" the one
\* with the message "Chunk corrupted".
read(st, hash) ==
    IF ~contains(st, hash)
    THEN [ok |-> FALSE, err |-> "ChunkNotFound", data |-> <<>>]
    ELSE IF hash_bytes(st[hash]) # hash
    THEN [ok |-> FALSE, err |-> "ChunkCorrupted", data |-> <<>>]
    ELSE [ok |-> TRUE, err |-> "", data |-> st[hash]]

\* ChunkStore::chunk_size: the length of the file, None when it is missing.
store_chunk_size(st, hash) == IF contains(st, hash) THEN Len(st[hash]) ELSE 0

\* ------------------------------------------------------------------- index
\* The in-memory index: a function from chunk ids to non-empty sets of
\* snapshot ids.
EmptyIndex == [c \in {} |-> {}]

\* The chunk ids listed by the files of a manifest.
manifest_chunks(files) == UNION {Range(files[i].chunks) : i \in DOMAIN files}

\* An add_snapshot that updates only the chunks the index already knows
\* (get_mut in place of entry().or_insert_with()).
add_snapshot_known_only(index, snapshot_id, files) ==
    [c \in DOMAIN index |->
        IF c \in manifest_chunks(files) THEN index[c] \cup {snapshot_id} ELSE index[c]]

\* An add_snapshot that replaces the snapshot set of a chunk (insert on the
\* map in place of insert into the set).
add_snapshot_replacing(index, snapshot_id, files) ==
    [c \in DOMAIN index \cup manifest_chunks(files) |->
        IF c \in manifest_chunks(files) THEN {snapshot_id} ELSE index[c]]

\* ChunkIndex::add_snapshot
add_snapshot(index, snapshot_id, files) ==
    [c \in DOMAIN index \cup manifest_chunks(files) |->
        IF c \in manifest_chunks(files)
        THEN (IF c \in DOMAIN index THEN index[c] ELSE {}) \cup {snapshot_id}
        ELSE index[c]]

\* chunk_refs_serde::serialize: each set of snapshot ids as a sorted array.
RECURSIVE sorted_refs(_)
sorted_refs(refs) ==
    IF refs = {} THEN <<>>
    ELSE LET m == CHOOSE x \in refs : \A y \in refs : x <= y
         IN  <<m>> \o sorted_refs(refs \ {m})

serialize(index) == [c \in DOMAIN index |-> sorted_refs(index[c])]

\* A deserialize that keeps only the first snapshot id of each array.
deserialize_first_only(json) ==
    [c \in DOMAIN json |-> IF json[c] = <<>> THEN {} ELSE {json[c][1]}]

\* chunk_refs_serde::deserialize: each array collected into a set.
deserialize(json) == [c \in DOMAIN json |-> Range(json[c])]

\* A file that is written whole by fs::write: absent, torn (created or
\* truncated, the content not yet complete: it does not parse), or complete.
AbsentFile == [st |-> "absent", val |-> <<>>]
TornFile == [st |-> "torn", val |-> <<>>]
WholeFile(v) == [st |-> "ok", val |-> v]

\* ----------------------------------------------------------------- utils
\* A check that lets ParentDir components through.
is_safe_path_parent_allowed(p) == \A i \in DOMAIN p : p[i] \notin {"\\0", "/"}

\* utils.rs is_safe_path on a path given by its components: "/" stands for a
\* root (the path is absolute), ".." for ParentDir, "." for CurDir and "\0"
\* for a component holding a NUL byte.
is_safe_path(p) == \A i \in DOMAIN p : p[i] \notin {"\\0", "/", ".."}

\* ------------------------------------------------------------------- state
VARIABLES
    chunk_files,    \* <repo>/data/chunks: chunk id -> bytes of its file
    manifests,      \* <repo>/snapshots: snapshot id -> <id>.json
    index_json,     \* <repo>/index.json
    data_dirs,      \* the snapshot ids that have a directory <repo>/data/<id>
    next_id,        \* the number of the snapshot the next backup makes
    id_str,         \* snapshot number -> the snapshot id string backup gave it
    pc,             \* where the running command is
    bk,             \* locals of backup
    rs,             \* locals of restore
    dl,             \* locals of delete
    dest,           \* the destination directory of the running restore
    ret,            \* what the command that ended returned
    backed_up,      \* history: for each backup that returned Ok, its source tree
    chunk_refs      \* the ChunkIndex a caller of the index API holds in memory

vars == <<chunk_files, manifests, index_json, data_dirs, next_id, id_str, pc, bk, rs,
          dl, dest, ret, backed_up, chunk_refs>>

repo == <<chunk_files, manifests, index_json, data_dirs>>

EmptyFn == [x \in {} |-> x]

\* SnapshotManifest::new(String::new(), String::new())
NewManifest ==
    [snapshot_id |-> 0, total_files |-> 0, total_bytes |-> 0, total_chunks |-> 0,
     deduplicated_bytes |-> 0, files |-> <<>>]

NoBackup ==
    [sid |-> 0, src |-> EmptyFn, index |-> EmptyIndex, index0 |-> AbsentFile,
     todo |-> {}, manifest |-> NewManifest, unique |-> {}, path |-> <<>>,
     chunks |-> <<>>, i |-> 0, index_saved |-> FALSE,
     unreadable |-> {}, changes |-> 0, file_size |-> 0, data |-> <<>>,
     stats |-> [new_chunks |-> 0, reused_chunks |-> 0]]

NoRestore ==
    [sid |-> 0, files |-> <<>>, fi |-> 0, ci |-> 0,
     dest0 |-> [x \in {} |-> x]]

NoDelete == [all |-> FALSE, snapshot_id_opt |-> 0, todo |-> {}, deleted_count |-> 0]

\* What a command returned: the command, its result ("Ok" or the error), the
\* snapshot id or chunk id it was about, and the bytes a chunk read returned.
NoRet == [op |-> "none", res |-> "", id |-> 0, data |-> <<>>]

Returned(op, res, id) == [op |-> op, res |-> res, id |-> id, data |-> <<>>]

\* Repository::init: snapshots/ and data/ exist and are empty, no index.json.
Init ==
    /\ chunk_files = EmptyFn
    /\ manifests = EmptyFn
    /\ index_json = AbsentFile
    /\ data_dirs = {}
    /\ next_id = 1
    /\ id_str = EmptyFn
    /\ pc = "idle"
    /\ bk = NoBackup
    /\ rs = NoRestore
    /\ dl = NoDelete
    /\ dest = EmptyFn
    /\ ret = NoRet
    /\ backed_up = EmptyFn
    /\ chunk_refs = EmptyIndex

\* f with x mapped to v.
Put(f, x, v) == [y \in DOMAIN f \cup {x} |-> IF y = x THEN v ELSE f[y]]

\* f without x.
Drop(f, x) == [y \in DOMAIN f \ {x} |-> f[y]]

\* ------------------------------------------------------------------ backup
\* ChunkIndex::load
index_load(file) ==
    IF file.st = "absent" THEN [ok |-> TRUE, index |-> EmptyIndex]
    ELSE IF file.st = "torn" THEN [ok |-> FALSE, index |-> EmptyIndex]
    ELSE [ok |-> TRUE, index |-> deserialize(file.val)]

\* One decimal digit, and one lowercase hexadecimal digit, as ASCII.
digit(d) == 48 + d
hex(h) == IF h < 10 THEN 48 + h ELSE 87 + h

\* backup, lines 37-41: format!("{}-{}", now.format("%Y%m%dT%H%M%S%.3fZ"),
\* uuid[..SNAPSHOT_UUID_LEN]).  The timestamp is a zero-padded decimal of
\* fixed width (two digits of milliseconds here), the uuid prefix lowercase
\* hexadecimal (one digit here), "-" (ASCII 45) between them.
format_snapshot_id(now, uuid) == <<digit(now \div 10), digit(now % 10), 45, hex(uuid)>>

\* String::cmp: byte-wise lexicographic order.
str_less(a, b) ==
    \E k \in 1..(Min(Len(a), Len(b)) + 1) :
        /\ \A i \in 1..(k - 1) : a[i] = b[i]
        /\ IF k <= Min(Len(a), Len(b)) THEN a[k] < b[k] ELSE Len(a) < Len(b)

\* backup, lines 17-48: open the repository, load the index, name the
\* snapshot from the clock reading `now` and the random `uuid`.  The uuid
\* prefix is taken not to repeat within one millisecond.
BackupStart(src, now, uuid) ==
    /\ pc = "idle"
    /\ next_id <= MaxSnapshots
    /\ \A n \in DOMAIN id_str : id_str[n] # format_snapshot_id(now, uuid)
    /\ LET loaded == index_load(index_json)
       IN  IF ~loaded.ok
           THEN /\ pc' = "done"
                /\ ret' = Returned("backup", "Json", 0)
                /\ UNCHANGED <<bk, next_id, id_str>>
           ELSE /\ pc' = "bk_walk"
                /\ bk' = [NoBackup EXCEPT !.sid = next_id, !.src = src,
                                          !.index = loaded.index,
                                          !.index0 = index_json,
                                          !.todo = DOMAIN src]
                /\ next_id' = next_id + 1
                /\ id_str' = Put(id_str, next_id, format_snapshot_id(now, uuid))
                /\ UNCHANGED ret
    /\ UNCHANGED <<repo, rs, dl, dest, backed_up, chunk_refs>>

\* A file record appended without adding the file's size to total_bytes.
push_record_no_bytes(m, rel_path, file_size, chunks, content_hash) ==
    [m EXCEPT !.files = Append(@, [rel_path     |-> rel_path,
                                   size         |-> file_size,
                                   chunks       |-> [k \in DOMAIN chunks |-> chunks[k].hash],
                                   content_hash |-> content_hash]),
              !.total_files = @ + 1]

\* FileRecord::new and the three lines that append it to the manifest.
push_record(m, rel_path, file_size, chunks, content_hash) ==
    [m EXCEPT !.files = Append(@, [rel_path     |-> rel_path,
                                   size         |-> file_size,
                                   chunks       |-> [k \in DOMAIN chunks |-> chunks[k].hash],
                                   content_hash |-> content_hash]),
              !.total_files = @ + 1,
              !.total_bytes = @ + file_size]

\* Option<ChunkHash>
None == <<>>
Some(h) == <<h>>

\* perform_chunked_backup, lines 119-169: the next regular file of the walk
\* and its metadata.  A file whose metadata cannot be read is passed over.
BackupWalk ==
    /\ pc = "bk_walk"
    /\ \E p \in bk.todo :
         IF p \in bk.unreadable
         THEN /\ bk' = [bk EXCEPT !.todo = @ \ {p}]
              /\ pc' = "bk_walk"
         ELSE /\ bk' = [bk EXCEPT !.todo = @ \ {p}, !.path = p,
                                  !.file_size = Len(bk.src[p])]
              /\ pc' = "bk_chunk"
    /\ UNCHANGED <<repo, next_id, id_str, rs, dl, dest, ret, backed_up, chunk_refs>>

\* Lines 171-178: the chunk list of the file as it is now.  A file that
\* cannot be chunked is passed over.
BackupChunkFile ==
    /\ pc = "bk_chunk"
    /\ IF bk.path \in bk.unreadable
       THEN /\ bk' = [bk EXCEPT !.path = <<>>, !.file_size = 0]
            /\ pc' = "bk_walk"
       ELSE LET chunks == chunk_file(bk.src[bk.path])
            IN  /\ bk' = [bk EXCEPT !.chunks = chunks,
                                    !.i = IF chunks = <<>> THEN 0 ELSE 1]
                /\ pc' = IF chunks = <<>> THEN "bk_record" ELSE "bk_store"
    /\ UNCHANGED <<repo, next_id, id_str, rs, dl, dest, ret, backed_up, chunk_refs>>

\* A chunk loop that does not insert the chunk's hash into unique_chunks.
chunk_stored_uncounted(b) ==
    IF b.i < Len(b.chunks)
    THEN [b EXCEPT !.i = @ + 1, !.data = <<>>]
    ELSE [b EXCEPT !.i = 0, !.data = <<>>]

\* Lines 184-191, after chunk i of the current file is in the store: the
\* next chunk, or the end of the chunk loop.
chunk_stored(b) ==
    LET u == [b EXCEPT !.unique = @ \cup {b.chunks[b.i].hash}, !.data = <<>>]
    IN  IF b.i < Len(b.chunks)
        THEN [u EXCEPT !.i = @ + 1]
        ELSE [u EXCEPT !.i = 0]

next_pc(b) == IF b.i = 0 THEN "bk_record" ELSE "bk_store"

\* BackupStats with every insertion counted as new.
count_chunk_as_new(stats, newly_stored) ==
    [stats EXCEPT !.new_chunks = @ + 1]

\* Lines 184-188: the insertion counted as new or as reused.
count_chunk(stats, newly_stored) ==
    IF newly_stored
    THEN [stats EXCEPT !.new_chunks = @ + 1]
    ELSE [stats EXCEPT !.reused_chunks = @ + 1]

\* Line 182: read_chunk on the file as it is now, then ChunkStore::store up
\* to File::create.  Both calls end the backup with `?` when they fail.
BackupStoreChunk ==
    /\ pc = "bk_store"
    /\ LET chunk == bk.chunks[bk.i]
           r     == IF bk.path \in bk.unreadable
                    THEN [ok |-> FALSE, data |-> <<>>]
                    ELSE read_chunk(bk.src[bk.path], chunk.offset, chunk.size)
           check == store_check(chunk_files, chunk.hash, r.data)
       IN  IF ~r.ok
           THEN /\ pc' = "done"
                /\ ret' = Returned("backup", "Io", bk.sid)
                /\ UNCHANGED <<bk, chunk_files>>
           ELSE IF check = "exists"
           THEN /\ bk' = [chunk_stored(bk) EXCEPT !.stats = count_chunk(@, FALSE)]
                /\ pc' = next_pc(bk')
                /\ UNCHANGED <<ret, chunk_files>>
           ELSE IF check = "mismatch"
           THEN /\ pc' = "done"
                /\ ret' = Returned("backup", "HashMismatch", bk.sid)
                /\ UNCHANGED <<bk, chunk_files>>
           ELSE /\ chunk_files' = file_create(chunk_files, chunk.hash)
                /\ bk' = [bk EXCEPT !.data = r.data]
                /\ pc' = "bk_write"
                /\ UNCHANGED ret
    /\ UNCHANGED <<manifests, index_json, data_dirs, next_id, id_str, rs, dl, dest, backed_up, chunk_refs>>

\* ChunkStore::store, lines 75-79: write_all of the bytes read_chunk
\* returned, one write at a time, then sync_all and Ok(true).
BackupWriteChunk ==
    /\ pc = "bk_write"
    /\ LET chunk == bk.chunks[bk.i]
       IN  /\ chunk_files' = file_write(chunk_files, chunk.hash, bk.data)
           /\ IF Len(chunk_files'[chunk.hash]) = Len(bk.data)
              THEN /\ bk' = [chunk_stored(bk) EXCEPT !.stats = count_chunk(@, TRUE)]
                   /\ pc' = next_pc(bk')
              ELSE UNCHANGED <<bk, pc>>
    /\ UNCHANGED <<manifests, index_json, data_dirs, next_id, id_str, rs, dl, dest, ret, backed_up, chunk_refs>>

\* Lines 193-213: the whole-file hash of the file as it is now (None when it
\* cannot be read) and the file's record, with the size the metadata gave.
BackupRecord ==
    /\ pc = "bk_record"
    /\ LET content_hash == IF bk.path \in bk.unreadable
                           THEN None
                           ELSE Some(hash_file(bk.src[bk.path]))
       IN  bk' = [bk EXCEPT !.manifest = push_record(@, bk.path, bk.file_size,
                                                     bk.chunks, content_hash),
                            !.path = <<>>, !.chunks = <<>>, !.file_size = 0]
    /\ pc' = "bk_walk"
    /\ UNCHANGED <<repo, next_id, id_str, rs, dl, dest, ret, backed_up, chunk_refs>>

RECURSIVE sum_sizes(_, _)
sum_sizes(st, ids) ==
    IF ids = {} THEN 0
    ELSE LET c == CHOOSE x \in ids : TRUE
         IN  store_chunk_size(st, c) + sum_sizes(st, ids \ {c})

\* perform_chunked_backup, lines 216-222, and backup, lines 60-66: the totals,
\* the snapshot id, and the snapshot added to the index in memory.
BackupWalkEnd ==
    /\ pc = "bk_walk"
    /\ bk.todo = {}
    /\ LET m == [bk.manifest EXCEPT !.total_chunks = Cardinality(bk.unique),
                                    !.deduplicated_bytes = sum_sizes(chunk_files, bk.unique),
                                    !.snapshot_id = bk.sid]
       IN  bk' = [bk EXCEPT !.manifest = m,
                            !.index = add_snapshot(bk.index, bk.sid, m.files)]
    /\ pc' = "bk_index_create"
    /\ UNCHANGED <<repo, next_id, id_str, rs, dl, dest, ret, backed_up, chunk_refs>>

\* ChunkIndex::save, fs::write(path, content): the file is created or
\* truncated ...
BackupIndexCreate ==
    /\ pc = "bk_index_create"
    /\ index_json' = TornFile
    /\ pc' = "bk_index_write"
    /\ UNCHANGED <<chunk_files, manifests, data_dirs, next_id, id_str, bk, rs, dl, dest, ret, backed_up, chunk_refs>>

\* A backup that saves the index as it loaded it, without its own snapshot.
BackupIndexWrite_stale ==
    /\ pc = "bk_index_write"
    /\ index_json' = WholeFile(serialize(index_load(bk.index0).index))
    /\ bk' = [bk EXCEPT !.index_saved = TRUE]
    /\ pc' = "bk_manifest_create"
    /\ UNCHANGED <<chunk_files, manifests, data_dirs, next_id, id_str, rs, dl, dest, ret, backed_up, chunk_refs>>

\* ... and then holds the serialized index.
BackupIndexWrite ==
    /\ pc = "bk_index_write"
    /\ index_json' = WholeFile(serialize(bk.index))
    /\ bk' = [bk EXCEPT !.index_saved = TRUE]
    /\ pc' = "bk_manifest_create"
    /\ UNCHANGED <<chunk_files, manifests, data_dirs, next_id, id_str, rs, dl, dest, ret, backed_up, chunk_refs>>

\* A backup that writes every manifest to the same file name.
BackupManifestCreate_one_name ==
    /\ pc = "bk_manifest_create"
    /\ manifests' = Put(manifests, 1, TornFile)
    /\ pc' = "bk_manifest_write"
    /\ UNCHANGED <<chunk_files, index_json, data_dirs, next_id, id_str, bk, rs, dl, dest, ret, backed_up, chunk_refs>>

\* backup, lines 70-76, fs::write of snapshots/<id>.json: created ...
BackupManifestCreate ==
    /\ pc = "bk_manifest_create"
    /\ manifests' = Put(manifests, bk.sid, TornFile)
    /\ pc' = "bk_manifest_write"
    /\ UNCHANGED <<chunk_files, index_json, data_dirs, next_id, id_str, bk, rs, dl, dest, ret, backed_up, chunk_refs>>

\* A backup that returns Ok with the manifest file still empty.
BackupManifestWrite_not_written ==
    /\ pc = "bk_manifest_write"
    /\ pc' = "done"
    /\ ret' = Returned("backup", "Ok", bk.sid)
    /\ backed_up' = Put(backed_up, bk.sid, bk.src)
    /\ UNCHANGED <<chunk_files, manifests, index_json, data_dirs, next_id, id_str, bk, rs, dl, dest, chunk_refs>>

\* ... and then complete; backup returns Ok.
BackupManifestWrite ==
    /\ pc = "bk_manifest_write"
    /\ manifests' = Put(manifests, bk.sid, WholeFile(bk.manifest))
    /\ pc' = "done"
    /\ ret' = Returned("backup", "Ok", bk.sid)
    /\ backed_up' = Put(backed_up, bk.sid, bk.src)
    /\ UNCHANGED <<chunk_files, index_json, data_dirs, next_id, id_str, bk, rs, dl, dest, chunk_refs>>

\* ----------------------------------------------------------------- restore
\* A restore that sorts the manifest file names ascending.
resolve_snapshot_ascending(snapshot_id_opt) ==
    IF snapshot_id_opt # 0
    THEN (IF snapshot_id_opt \in DOMAIN manifests
          THEN [ok |-> TRUE, err |-> "", sid |-> snapshot_id_opt]
          ELSE [ok |-> FALSE, err |-> "SnapshotNotFound", sid |-> snapshot_id_opt])
    ELSE IF DOMAIN manifests = {}
    THEN [ok |-> FALSE, err |-> "NoSnapshots", sid |-> 0]
    ELSE [ok |-> TRUE, err |-> "",
          sid |-> CHOOSE s \in DOMAIN manifests :
                      \A t \in DOMAIN manifests : ~str_less(id_str[t], id_str[s])]

\* restore, lines 15-49: the snapshot to restore, None when there is none.
\* With no id given, the first of the manifest file names sorted descending.
resolve_snapshot(snapshot_id_opt) ==
    IF snapshot_id_opt # 0
    THEN (IF snapshot_id_opt \in DOMAIN manifests
          THEN [ok |-> TRUE, err |-> "", sid |-> snapshot_id_opt]
          ELSE [ok |-> FALSE, err |-> "SnapshotNotFound", sid |-> snapshot_id_opt])
    ELSE IF DOMAIN manifests = {}
    THEN [ok |-> FALSE, err |-> "NoSnapshots", sid |-> 0]
    ELSE [ok |-> TRUE, err |-> "",
          sid |-> CHOOSE s \in DOMAIN manifests :
                      \A t \in DOMAIN manifests : ~str_less(id_str[s], id_str[t])]

\* The manifest as read and parsed from snapshots/<id>.json.
load_manifest(sid) ==
    IF manifests[sid].st # "ok" THEN [ok |-> FALSE, err |-> "Json"]
    ELSE IF manifests[sid].val.snapshot_id # sid THEN [ok |-> FALSE, err |-> "Other"]
    ELSE [ok |-> TRUE, err |-> ""]

\* The destination path restore is given: absent, a file, or a directory
\* with its entries.
Dests ==
    {[kind |-> "absent", entries |-> EmptyFn],
     [kind |-> "file",   entries |-> EmptyFn],
     [kind |-> "dir",    entries |-> EmptyFn],
     [kind |-> "dir",    entries |-> [p \in {<<"a">>} |-> <<1>>]]}

\* A restore that does not look at the entries of the destination.
RestoreStart_into_any(snapshot_id_opt, dest0) ==
    /\ pc = "idle"
    /\ dest' = dest0.entries
    /\ LET snap == resolve_snapshot(snapshot_id_opt)
           fail(err) == /\ pc' = "done"
                        /\ ret' = Returned("restore", err, snap.sid)
                        /\ rs' = [NoRestore EXCEPT !.dest0 = dest0.entries]
       IN  IF ~snap.ok THEN fail(snap.err)
           ELSE IF dest0.kind = "file" THEN fail("Other")
           ELSE IF ~load_manifest(snap.sid).ok THEN fail(load_manifest(snap.sid).err)
           ELSE /\ pc' = "rs_file"
                /\ rs' = [NoRestore EXCEPT !.sid = snap.sid,
                                           !.files = manifests[snap.sid].val.files,
                                           !.fi = 1,
                                           !.dest0 = dest0.entries]
                /\ UNCHANGED ret
    /\ UNCHANGED <<repo, next_id, id_str, bk, dl, backed_up, chunk_refs>>

\* restore, lines 11-104: the snapshot (snapshot_id_opt is 0 for None), the
\* destination, the manifest.  rs.dest0 keeps the entries the destination
\* had when restore was called.
RestoreStart(snapshot_id_opt, dest0) ==
    /\ pc = "idle"
    /\ dest' = dest0.entries
    /\ LET snap == resolve_snapshot(snapshot_id_opt)
           fail(err) == /\ pc' = "done"
                        /\ ret' = Returned("restore", err, snap.sid)
                        /\ rs' = [NoRestore EXCEPT !.dest0 = dest0.entries]
       IN  IF ~snap.ok THEN fail(snap.err)
           ELSE IF dest0.kind = "file" THEN fail("Other")
           ELSE IF dest0.entries # EmptyFn THEN fail("DestinationNotEmpty")
           ELSE IF ~load_manifest(snap.sid).ok THEN fail(load_manifest(snap.sid).err)
           ELSE /\ pc' = "rs_file"
                /\ rs' = [NoRestore EXCEPT !.sid = snap.sid,
                                           !.files = manifests[snap.sid].val.files,
                                           !.fi = 1,
                                           !.dest0 = dest0.entries]
                /\ UNCHANGED ret
    /\ UNCHANGED <<repo, next_id, id_str, bk, dl, backed_up, chunk_refs>>

\* restore, lines 106-121: the next file of the manifest; an unsafe path is
\* skipped, a safe one is created empty.  After the last file restore
\* returns Ok.
RestoreFile ==
    /\ pc = "rs_file"
    /\ IF rs.fi > Len(rs.files)
       THEN /\ pc' = "done"
            /\ ret' = Returned("restore", "Ok", rs.sid)
            /\ UNCHANGED <<rs, dest>>
       ELSE IF ~is_safe_path(rs.files[rs.fi].rel_path)
       THEN /\ rs' = [rs EXCEPT !.fi = @ + 1]
            /\ UNCHANGED <<pc, ret, dest>>
       ELSE /\ dest' = Put(dest, rs.files[rs.fi].rel_path, <<>>)
            /\ rs' = [rs EXCEPT !.ci = 1]
            /\ pc' = "rs_chunk"
            /\ UNCHANGED ret
    /\ UNCHANGED <<repo, next_id, id_str, bk, dl, backed_up, chunk_refs>>

\* A restore that removes a chunk file from the store when its bytes fail the
\* verification of read.
RestoreChunk_drops_corrupt ==
    /\ pc = "rs_chunk"
    /\ LET file == rs.files[rs.fi]
       IN  IF rs.ci > Len(file.chunks)
           THEN /\ rs' = [rs EXCEPT !.fi = @ + 1, !.ci = 0]
                /\ pc' = "rs_file"
                /\ UNCHANGED <<ret, dest, chunk_files>>
           ELSE LET r == read(chunk_files, file.chunks[rs.ci])
                IN  IF ~r.ok
                    THEN /\ pc' = "done"
                         /\ ret' = Returned("restore", r.err, rs.sid)
                         /\ chunk_files' = IF r.err = "ChunkCorrupted"
                                           THEN Drop(chunk_files, file.chunks[rs.ci])
                                           ELSE chunk_files
                         /\ UNCHANGED <<rs, dest>>
                    ELSE /\ dest' = [dest EXCEPT ![file.rel_path] = @ \o r.data]
                         /\ rs' = [rs EXCEPT !.ci = @ + 1]
                         /\ UNCHANGED <<pc, ret, chunk_files>>
    /\ UNCHANGED <<manifests, index_json, data_dirs, next_id, id_str, bk, dl, backed_up,
                   chunk_refs>>

\* restore, lines 123-134: the next chunk of the file is read from the store
\* and written to the output file; a chunk error ends the restore.
RestoreChunk ==
    /\ pc = "rs_chunk"
    /\ LET file == rs.files[rs.fi]
       IN  IF rs.ci > Len(file.chunks)
           THEN /\ rs' = [rs EXCEPT !.fi = @ + 1, !.ci = 0]
                /\ pc' = "rs_file"
                /\ UNCHANGED <<ret, dest>>
           ELSE LET r == read(chunk_files, file.chunks[rs.ci])
                IN  IF ~r.ok
                    THEN /\ pc' = "done"
                         /\ ret' = Returned("restore", r.err, rs.sid)
                         /\ UNCHANGED <<rs, dest>>
                    ELSE /\ dest' = [dest EXCEPT ![file.rel_path] = @ \o r.data]
                         /\ rs' = [rs EXCEPT !.ci = @ + 1]
                         /\ UNCHANGED <<pc, ret>>
    /\ UNCHANGED <<repo, next_id, id_str, bk, dl, backed_up, chunk_refs>>

\* ------------------------------------------------------------------ delete
\* delete_single_snapshot: the result and the snapshots/ and data/ entries it
\* leaves.
delete_single_snapshot(snapshot_id) ==
    LET keep(err) == [res |-> err, manifests |-> manifests, data_dirs |-> data_dirs]
    IN  IF snapshot_id \notin DOMAIN manifests THEN keep("SnapshotNotFound")
        ELSE IF snapshot_id \notin data_dirs THEN keep("SnapshotNotFound")
        ELSE IF manifests[snapshot_id].st # "ok" THEN keep("Json")
        ELSE IF manifests[snapshot_id].val.snapshot_id # snapshot_id THEN keep("Other")
        ELSE [res       |-> "Ok",
              data_dirs |-> data_dirs \ {snapshot_id},
              manifests |-> Drop(manifests, snapshot_id)]

\* delete, lines 11-15: the check of the arguments (snapshot_id_opt is 0 for
\* None).
delete_args(snapshot_id_opt, all) ==
    IF snapshot_id_opt # 0 /\ all THEN "DeleteArgsConflict"
    ELSE IF snapshot_id_opt = 0 /\ ~all THEN "DeleteArgsRequired"
    ELSE "Ok"

\* A delete that opens the repository before it looks at its arguments.
DeleteStart_open_first(snapshot_id_opt, all, repo_exists) ==
    /\ pc = "idle"
    /\ pc' = "done"
    /\ ret' = Returned("delete",
                       IF ~repo_exists THEN "RepoNotFound"
                       ELSE IF delete_args(snapshot_id_opt, all) # "Ok"
                       THEN delete_args(snapshot_id_opt, all)
                       ELSE "SnapshotNotFound",
                       snapshot_id_opt)
    /\ dl' = [NoDelete EXCEPT !.all = all, !.snapshot_id_opt = snapshot_id_opt]
    /\ UNCHANGED <<repo, next_id, id_str, bk, rs, dest, backed_up, chunk_refs>>

\* delete, lines 9-56: the arguments, then Repository::open on the path
\* given (repo_exists: it is the repository), and for --all the ids of the
\* manifest files.
DeleteStart(snapshot_id_opt, all, repo_exists) ==
    /\ pc = "idle"
    /\ LET args == [NoDelete EXCEPT !.all = all, !.snapshot_id_opt = snapshot_id_opt]
       IN  IF delete_args(snapshot_id_opt, all) # "Ok"
           THEN /\ pc' = "done"
                /\ ret' = Returned("delete", delete_args(snapshot_id_opt, all),
                                   snapshot_id_opt)
                /\ dl' = args
           ELSE IF ~repo_exists
           THEN /\ pc' = "done"
                /\ ret' = Returned("delete", "RepoNotFound", snapshot_id_opt)
                /\ dl' = args
           ELSE IF ~all
           THEN /\ pc' = "dl_single"
                /\ dl' = [args EXCEPT !.todo = {snapshot_id_opt}]
                /\ UNCHANGED ret
           ELSE IF DOMAIN manifests = {}
           THEN /\ pc' = "done"
                /\ ret' = Returned("delete", "Ok", 0)
                /\ dl' = args
           ELSE /\ pc' = "dl_all"
                /\ dl' = [args EXCEPT !.todo = DOMAIN manifests]
                /\ UNCHANGED ret
    /\ UNCHANGED <<repo, next_id, id_str, bk, rs, dest, backed_up, chunk_refs>>

\* delete, lines 19-26: the one snapshot; its error is returned.
DeleteSingle ==
    /\ pc = "dl_single"
    /\ \E id \in dl.todo :
         LET r == delete_single_snapshot(id)
         IN  /\ manifests' = r.manifests
             /\ data_dirs' = r.data_dirs
             /\ ret' = Returned("delete", r.res, id)
    /\ pc' = "done"
    /\ UNCHANGED <<chunk_files, index_json, next_id, id_str, bk, rs, dl, dest, backed_up, chunk_refs>>

\* delete, lines 58-73: one turn of the loop over all snapshot ids; an error
\* is logged and the loop goes on.  After the last id delete returns Ok.
DeleteAllStep ==
    /\ pc = "dl_all"
    /\ \E id \in dl.todo :
         LET r == delete_single_snapshot(id)
         IN  /\ manifests' = r.manifests
             /\ data_dirs' = r.data_dirs
             /\ dl' = [dl EXCEPT !.todo = @ \ {id},
                                 !.deleted_count = IF r.res = "Ok" THEN @ + 1 ELSE @]
             /\ IF dl'.todo = {}
                THEN /\ pc' = "done"
                     /\ ret' = Returned("delete", "Ok", 0)
                ELSE UNCHANGED <<pc, ret>>
    /\ UNCHANGED <<chunk_files, index_json, next_id, id_str, bk, rs, dest, backed_up, chunk_refs>>

\* -------------------------------------------------------------------- list
\* list: every manifest file is read and parsed, the table is printed;
\* a manifest that does not parse ends the command with an error.
List ==
    /\ pc = "idle"
    /\ pc' = "done"
    /\ ret' = Returned("list",
                       IF \A s \in DOMAIN manifests : manifests[s].st = "ok"
                       THEN "Ok" ELSE "Other",
                       0)
    /\ UNCHANGED <<repo, next_id, id_str, bk, rs, dl, dest, backed_up, chunk_refs>>

\* ------------------------------------------------------------- environment
\* The clock reading of a backup when the clock advances one millisecond
\* from each backup to the next.
Tick == 8 + next_id

op_of(p) ==
    IF p \in {"bk_walk", "bk_chunk", "bk_store", "bk_write", "bk_record",
              "bk_index_create", "bk_index_write",
              "bk_manifest_create", "bk_manifest_write"} THEN "backup"
    ELSE IF p \in {"rs_file", "rs_chunk"} THEN "restore"
    ELSE "delete"

sid_of(p) ==
    IF op_of(p) = "backup" THEN bk.sid ELSE IF op_of(p) = "restore" THEN rs.sid ELSE 0

\* The process is killed between two I/O steps: what it wrote so far stays.
Kill ==
    /\ pc \notin {"idle", "done"}
    /\ pc' = "done"
    /\ ret' = Returned(op_of(pc), "Killed", sid_of(pc))
    /\ UNCHANGED <<repo, next_id, id_str, bk, rs, dl, dest, backed_up, chunk_refs>>

\* The I/O call of the next step fails and `?` returns the error: the
\* chunk store calls and the index and manifest writes of backup, and every
\* call of restore.
IoError ==
    /\ pc \in {"bk_store", "bk_write", "bk_index_create", "bk_index_write",
               "bk_manifest_create", "bk_manifest_write", "rs_file", "rs_chunk"}
    /\ pc' = "done"
    /\ ret' = Returned(op_of(pc), "Io", sid_of(pc))
    /\ UNCHANGED <<repo, next_id, id_str, bk, rs, dl, dest, backed_up, chunk_refs>>

\* The command is over; the next one starts from scratch, and a restore gets
\* a destination of its own.
Exit ==
    /\ pc = "done"
    /\ pc' = "idle"
    /\ bk' = NoBackup
    /\ rs' = NoRestore
    /\ dl' = NoDelete
    /\ dest' = EmptyFn
    /\ ret' = NoRet
    /\ UNCHANGED <<repo, next_id, id_str, backed_up, chunk_refs>>

Next ==
    \/ \E src \in Trees : BackupStart(src, Tick, 0)
    \/ BackupWalk
    \/ BackupChunkFile
    \/ BackupStoreChunk
    \/ BackupWriteChunk
    \/ BackupRecord
    \/ BackupWalkEnd
    \/ BackupIndexCreate
    \/ BackupIndexWrite
    \/ BackupManifestCreate
    \/ BackupManifestWrite
    \/ \E s \in 0..MaxSnapshots, dest0 \in Dests : RestoreStart(s, dest0)
    \/ RestoreFile
    \/ RestoreChunk
    \/ \E s \in 0..MaxSnapshots, all, repo_exists \in BOOLEAN :
           DeleteStart(s, all, repo_exists)
    \/ DeleteSingle
    \/ DeleteAllStep
    \/ List
    \/ Kill
    \/ IoError
    \/ Exit

Spec == Init /\ [][Next]_vars

\* ------------------------------------------------- the chunk store by itself
\* The chunks of the source files, and their ids.
ChunkData ==
    UNION {{SubSeq(c, ch.offset + 1, ch.offset + ch.size) : ch \in Range(chunk_file(c))}
           : c \in Contents}

StoreIds == {hash_bytes(d) : d \in ChunkData}

\* write_all to its end.
RECURSIVE write_all(_, _, _)
write_all(st, hash, data) ==
    IF Len(st[hash]) = Len(data) THEN st
    ELSE write_all(file_write(st, hash, data), hash, data)

\* ChunkStore::store run to its end: the result and the store it leaves.
store(st, hash, data) ==
    LET check == store_check(st, hash, data)
    IN  IF check = "exists" THEN [res |-> "Ok(false)", st |-> st]
        ELSE IF check = "mismatch" THEN [res |-> "HashMismatch", st |-> st]
        ELSE [res |-> "Ok(true)", st |-> write_all(file_create(st, hash), hash, data)]

\* ChunkStore::delete
store_delete(st, hash) == IF contains(st, hash) THEN Drop(st, hash) ELSE st

StoreCall(hash, data) ==
    /\ chunk_files' = store(chunk_files, hash, data).st
    /\ ret' = [Returned("store", store(chunk_files, hash, data).res, hash)
                  EXCEPT !.data = data]
    /\ UNCHANGED <<manifests, index_json, data_dirs, next_id, id_str, pc, bk, rs, dl, dest, backed_up, chunk_refs>>

ReadCall(hash) ==
    /\ LET r == read(chunk_files, hash)
       IN  ret' = [op |-> "read", res |-> IF r.ok THEN "Ok" ELSE r.err, id |-> hash,
                   data |-> r.data]
    /\ UNCHANGED <<repo, next_id, id_str, pc, bk, rs, dl, dest, backed_up, chunk_refs>>

DeleteChunkCall(hash) ==
    /\ chunk_files' = store_delete(chunk_files, hash)
    /\ ret' = Returned("delete_chunk", "Ok", hash)
    /\ UNCHANGED <<manifests, index_json, data_dirs, next_id, id_str, pc, bk, rs, dl, dest, backed_up, chunk_refs>>

\* Something other than the program changes the bytes of a stored chunk.
Tamper(hash, bytes) ==
    /\ contains(chunk_files, hash)
    /\ bytes # chunk_files[hash]
    /\ chunk_files' = [chunk_files EXCEPT ![hash] = bytes]
    /\ ret' = Returned("tamper", "", hash)
    /\ UNCHANGED <<manifests, index_json, data_dirs, next_id, id_str, pc, bk, rs, dl, dest, backed_up, chunk_refs>>

NextStore ==
    \/ \E hash \in StoreIds, data \in ChunkData : StoreCall(hash, data)
    \/ \E hash \in StoreIds : ReadCall(hash)
    \/ \E hash \in StoreIds : DeleteChunkCall(hash)
    \/ \E hash \in StoreIds, bytes \in ByteSeqs : Tamper(hash, bytes)

SpecStore == Init /\ [][NextStore]_vars

\* ------------------------------------------------ the index API by itself
\* The chunk ids of a manifest in the order the loops over files and chunks
\* meet them.
RECURSIVE flat_chunks(_)
flat_chunks(files) ==
    IF files = <<>> THEN <<>> ELSE Head(files).chunks \o flat_chunks(Tail(files))

\* A remove_snapshot that takes every chunk of the manifest for an orphan.
remove_chunk_always(acc, snapshot_id, chunk) ==
    IF chunk \in DOMAIN acc.index
    THEN [index |-> [c \in DOMAIN acc.index \ {chunk} |-> acc.index[c]],
          orphaned_chunks |-> acc.orphaned_chunks \cup {chunk}]
    ELSE acc

\* A remove_snapshot that takes the snapshot out of the set and leaves the
\* key in the map when the set has become empty.
remove_chunk_keep_key(acc, snapshot_id, chunk) ==
    IF chunk \in DOMAIN acc.index
    THEN LET refs == acc.index[chunk] \ {snapshot_id}
         IN  [index |-> [acc.index EXCEPT ![chunk] = refs],
              orphaned_chunks |-> IF refs = {} THEN acc.orphaned_chunks \cup {chunk}
                                  ELSE acc.orphaned_chunks]
    ELSE acc

\* ChunkIndex::remove_snapshot, lines 128-136: one turn of the inner loop.
remove_chunk(acc, snapshot_id, chunk) ==
    IF chunk \in DOMAIN acc.index
    THEN LET refs == acc.index[chunk] \ {snapshot_id}
         IN  IF refs = {}
             THEN [index |-> [c \in DOMAIN acc.index \ {chunk} |-> acc.index[c]],
                   orphaned_chunks |-> acc.orphaned_chunks \cup {chunk}]
             ELSE [acc EXCEPT !.index[chunk] = refs]
    ELSE acc

RECURSIVE remove_chunks(_, _, _)
remove_chunks(acc, snapshot_id, chunks) ==
    IF chunks = <<>> THEN acc
    ELSE remove_chunks(remove_chunk(acc, snapshot_id, Head(chunks)), snapshot_id,
                       Tail(chunks))

\* ChunkIndex::remove_snapshot: the index it leaves and the set it returns.
remove_snapshot(index, snapshot_id, files) ==
    remove_chunks([index |-> index, orphaned_chunks |-> {}], snapshot_id,
                  flat_chunks(files))

\* ChunkIndex::is_referenced
is_referenced(index, chunk) == chunk \in DOMAIN index

\* ChunkIndex::get_snapshots: Some(set) for a key of the map, else None.
get_snapshots(index, chunk) == IF chunk \in DOMAIN index THEN Some(index[chunk]) ELSE None

RECURSIVE sum_refs(_, _)
sum_refs(index, keys) ==
    IF keys = {} THEN 0
    ELSE LET c == CHOOSE x \in keys : TRUE
         IN  Cardinality(index[c]) + sum_refs(index, keys \ {c})

\* ChunkIndex::stats: the number of keys and the sum of the set sizes.
index_stats(index) ==
    [total_chunks |-> Cardinality(DOMAIN index),
     total_references |-> sum_refs(index, DOMAIN index)]

\* ChunkIndex::rebuild, lines 189-203: the manifests in the order read_dir
\* yields them, each parsed and added; a file that does not parse ends the
\* rebuild with the error.
RECURSIVE rebuild_from(_, _, _)
rebuild_from(index, ms, order) ==
    IF order = <<>> THEN [ok |-> TRUE, index |-> index]
    ELSE IF ms[Head(order)].st # "ok" THEN [ok |-> FALSE, index |-> index]
    ELSE rebuild_from(add_snapshot(index, ms[Head(order)].val.snapshot_id,
                                   ms[Head(order)].val.files),
                      ms, Tail(order))

rebuild(ms, order) == rebuild_from(EmptyIndex, ms, order)

\* The orders in which a set can be listed.
Orders(S) == {o \in [1..Cardinality(S) -> S] : Range(o) = S}

\* The manifest perform_chunked_backup builds for a source tree (the file
\* records; the totals over the chunks are left out) with the id backup
\* gives it.
manifest_of(snapshot_id, tree) ==
    LET record(m, p) ==
            IF p \in DOMAIN tree
            THEN push_record(m, p, Len(tree[p]), chunk_file(tree[p]), Some(hash_file(tree[p])))
            ELSE m
    IN  record(record([NewManifest EXCEPT !.snapshot_id = snapshot_id], <<"a">>),
               <<"d", "b">>)

\* The manifests the index API is called with: no file, one file of one
\* chunk, one file of two chunks, two files that share a chunk, two files
\* with the same chunk list.
IndexTrees ==
    {t \in Trees :
        \/ DOMAIN t = {}
        \/ DOMAIN t = {<<"a">>} /\ t[<<"a">>] # <<>>
        \/ DOMAIN t = Paths /\ t[<<"a">>] = <<0, 1>> /\ t[<<"d", "b">>] # <<>>}

IndexManifests == {manifest_of(s, t) : s \in SnapshotIds, t \in IndexTrees}

AddSnapshotCall(M) ==
    /\ chunk_refs' = add_snapshot(chunk_refs, M.snapshot_id, M.files)
    /\ ret' = Returned("add_snapshot", "Ok", M.snapshot_id)
    /\ UNCHANGED <<repo, next_id, id_str, pc, bk, rs, dl, dest, backed_up>>

RemoveSnapshotCall(M) ==
    /\ LET r == remove_snapshot(chunk_refs, M.snapshot_id, M.files)
       IN  /\ chunk_refs' = r.index
           /\ ret' = [op |-> "remove_snapshot", res |-> "Ok", id |-> M.snapshot_id,
                      data |-> r.orphaned_chunks]
    /\ UNCHANGED <<repo, next_id, id_str, pc, bk, rs, dl, dest, backed_up>>

\* A manifest file appears in snapshots/, whole or (a write cut short) torn.
PutManifest(M, whole) ==
    /\ manifests' = Put(manifests, M.snapshot_id, IF whole THEN WholeFile(M) ELSE TornFile)
    /\ ret' = Returned("put_manifest", "", M.snapshot_id)
    /\ UNCHANGED <<chunk_files, index_json, data_dirs, next_id, id_str, pc, bk, rs, dl, dest,
                   backed_up, chunk_refs>>

\* index = ChunkIndex::rebuild(snapshots_dir)?
RebuildCall ==
    /\ \E order \in Orders(DOMAIN manifests) :
         LET r == rebuild(manifests, order)
         IN  IF r.ok
             THEN /\ chunk_refs' = r.index
                  /\ ret' = Returned("rebuild", "Ok", 0)
             ELSE /\ ret' = Returned("rebuild", "Json", 0)
                  /\ UNCHANGED chunk_refs
    /\ UNCHANGED <<repo, next_id, id_str, pc, bk, rs, dl, dest, backed_up>>

\* index.save(path): the file holds the serialized index; the index saved is
\* recorded with the return.
IndexSaveCall ==
    /\ index_json' = WholeFile(serialize(chunk_refs))
    /\ ret' = [op |-> "save", res |-> "Ok", id |-> 0, data |-> chunk_refs]
    /\ UNCHANGED <<chunk_files, manifests, data_dirs, next_id, id_str, pc, bk, rs, dl, dest,
                   backed_up, chunk_refs>>

\* index = ChunkIndex::load(path)?; the state of the file it was given is
\* recorded with the return.
IndexLoadCall ==
    /\ LET r == index_load(index_json)
       IN  IF r.ok
           THEN /\ chunk_refs' = r.index
                /\ ret' = [op |-> "load", res |-> "Ok", id |-> 0, data |-> index_json.st]
           ELSE /\ ret' = [op |-> "load", res |-> "Json", id |-> 0, data |-> index_json.st]
                /\ UNCHANGED chunk_refs
    /\ UNCHANGED <<repo, next_id, id_str, pc, bk, rs, dl, dest, backed_up>>

NextIndex ==
    \/ \E M \in IndexManifests : AddSnapshotCall(M)
    \/ \E M \in IndexManifests : RemoveSnapshotCall(M)
    \/ \E M \in IndexManifests, whole \in BOOLEAN : PutManifest(M, whole)
    \/ RebuildCall

SpecIndex == Init /\ [][NextIndex]_vars

\* The index API with its file: the index is built up and taken down in
\* memory, saved and loaded.
NextIndexFile ==
    \/ \E M \in IndexManifests : AddSnapshotCall(M)
    \/ \E M \in IndexManifests : RemoveSnapshotCall(M)
    \/ IndexSaveCall
    \/ IndexLoadCall

SpecIndexFile == Init /\ [][NextIndexFile]_vars

\* ------------------------------------------- commands over a damaged store
\* Between two commands something other than the program changes one byte
\* of a stored chunk (bit rot, tampering) ...
DamageChunk(hash, bytes) ==
    /\ pc = "idle"
    /\ contains(chunk_files, hash)
    /\ Len(bytes) = Len(chunk_files[hash])
    /\ Cardinality({k \in DOMAIN bytes : bytes[k] # chunk_files[hash][k]}) = 1
    /\ chunk_files' = [chunk_files EXCEPT ![hash] = bytes]
    /\ UNCHANGED <<manifests, index_json, data_dirs, next_id, id_str, pc, bk, rs, dl, dest, ret,
                   backed_up, chunk_refs>>

\* ... or removes its file.
LoseChunk(hash) ==
    /\ pc = "idle"
    /\ contains(chunk_files, hash)
    /\ chunk_files' = Drop(chunk_files, hash)
    /\ UNCHANGED <<manifests, index_json, data_dirs, next_id, id_str, pc, bk, rs, dl, dest, ret,
                   backed_up, chunk_refs>>

\* The commands run to their end, none is killed and no I/O call fails.
NextDamage ==
    \/ \E src \in Trees : BackupStart(src, Tick, 0)
    \/ BackupWalk
    \/ BackupChunkFile
    \/ BackupStoreChunk
    \/ BackupWriteChunk
    \/ BackupRecord
    \/ BackupWalkEnd
    \/ BackupIndexCreate
    \/ BackupIndexWrite
    \/ BackupManifestCreate
    \/ BackupManifestWrite
    \/ \E s \in 0..MaxSnapshots, dest0 \in Dests : RestoreStart(s, dest0)
    \/ RestoreFile
    \/ RestoreChunk
    \/ \E s \in 0..MaxSnapshots, all, repo_exists \in BOOLEAN :
           DeleteStart(s, all, repo_exists)
    \/ DeleteSingle
    \/ DeleteAllStep
    \/ List
    \/ Exit
    \/ \E hash \in ChunkIds, bytes \in ByteSeqs : DamageChunk(hash, bytes)
    \/ \E hash \in ChunkIds : LoseChunk(hash)

SpecDamage == Init /\ [][NextDamage]_vars

\* ------------------------------------------- backup of a source that changes
\* Another process rewrites the file backup is working on: its content, and
\* so its length, changes between two steps of the backup.  bk.changes
\* counts what the other process did to the source during this backup.
SourceChange(content) ==
    /\ pc \in {"bk_chunk", "bk_store", "bk_write", "bk_record"}
    /\ bk.changes < MaxSourceChanges
    /\ content # bk.src[bk.path]
    /\ bk' = [bk EXCEPT !.src[bk.path] = content, !.changes = @ + 1]
    /\ UNCHANGED <<repo, next_id, id_str, pc, rs, dl, dest, ret, backed_up, chunk_refs>>

\* A file not yet recorded becomes unreadable (removed, or its permissions
\* taken away) and stays so: every later open or stat of it fails.
SourceUnreadable(p) ==
    /\ \/ pc = "bk_walk" /\ p \in bk.todo
       \/ pc \in {"bk_chunk", "bk_store", "bk_write", "bk_record"} /\ p = bk.path
    /\ bk.changes < MaxSourceChanges
    /\ p \notin bk.unreadable
    /\ bk' = [bk EXCEPT !.unreadable = @ \cup {p}, !.changes = @ + 1]
    /\ UNCHANGED <<repo, next_id, id_str, pc, rs, dl, dest, ret, backed_up, chunk_refs>>

NextSource ==
    \/ \E src \in Trees : BackupStart(src, Tick, 0)
    \/ BackupWalk
    \/ BackupChunkFile
    \/ BackupStoreChunk
    \/ BackupWriteChunk
    \/ BackupRecord
    \/ BackupWalkEnd
    \/ BackupIndexCreate
    \/ BackupIndexWrite
    \/ BackupManifestCreate
    \/ BackupManifestWrite
    \/ Exit
    \/ \E content \in Contents : SourceChange(content)
    \/ \E p \in Paths : SourceUnreadable(p)

SpecSource == Init /\ [][NextSource]_vars

\* ------------------------------------------- restore of hand-edited manifests
\* Paths a manifest edited by hand can name: the absolute path /a, the path
\* ../a that leaves the destination, and a path with a NUL byte in it.
UnsafePaths == {<<"/", "a">>, <<"..", "a">>, <<"d", "\\0">>}

\* The sources backed up before the manifests are edited: a tree of two
\* files and a tree of one.
RestoreTrees ==
    {[p \in Paths |-> IF p = <<"a">> THEN <<0, 1>> ELSE <<0, 1, 1>>],
     [p \in {<<"d", "b">>} |-> <<0, 1>>]}

\* Somebody rewrites the rel_path of record i of the manifest of snapshot s.
EditManifest(s, i, p) ==
    /\ pc = "idle"
    /\ s \in DOMAIN manifests
    /\ manifests[s].st = "ok"
    /\ i \in DOMAIN manifests[s].val.files
    /\ manifests[s].val.files[i].rel_path # p
    /\ manifests' = [manifests EXCEPT ![s].val.files[i].rel_path = p]
    /\ UNCHANGED <<chunk_files, index_json, data_dirs, next_id, id_str, pc, bk, rs,
                   dl, dest, ret, backed_up, chunk_refs>>

NextRestore ==
    \/ \E src \in RestoreTrees : BackupStart(src, Tick, 0)
    \/ BackupWalk
    \/ BackupChunkFile
    \/ BackupStoreChunk
    \/ BackupWriteChunk
    \/ BackupRecord
    \/ BackupWalkEnd
    \/ BackupIndexCreate
    \/ BackupIndexWrite
    \/ BackupManifestCreate
    \/ BackupManifestWrite
    \/ \E s \in SnapshotIds, i \in 1..Cardinality(Paths), p \in UnsafePaths :
           EditManifest(s, i, p)
    \/ \E s \in 0..MaxSnapshots, dest0 \in Dests : RestoreStart(s, dest0)
    \/ RestoreFile
    \/ RestoreChunk
    \/ Exit

SpecRestore == Init /\ [][NextRestore]_vars

\* ------------------------------------------------- backups at any clock reading
\* The clock readings (milliseconds) and the uuid prefixes a backup can get:
\* two backups can read the same millisecond, the wall clock can step back,
\* and the uuid is random.
Times == 9..10
Uuids == {3, 12}

IdTrees == {EmptyFn, [p \in {<<"a">>} |-> <<0, 1>>]}

NextIds ==
    \/ \E src \in IdTrees, now \in Times, uuid \in Uuids : BackupStart(src, now, uuid)
    \/ BackupWalk
    \/ BackupChunkFile
    \/ BackupStoreChunk
    \/ BackupWriteChunk
    \/ BackupRecord
    \/ BackupWalkEnd
    \/ BackupIndexCreate
    \/ BackupIndexWrite
    \/ BackupManifestCreate
    \/ BackupManifestWrite
    \/ \E s \in 0..MaxSnapshots, dest0 \in Dests : RestoreStart(s, dest0)
    \/ RestoreFile
    \/ RestoreChunk
    \/ Exit

SpecIds == Init /\ [][NextIds]_vars

\* ------------------------------------------------------ the chunker by itself
FileContents == UNION {[1..n -> Byte] : n \in 0..MaxFileLen}

\* What the first read calls of a chunk_file do.
ReadSchedules == UNION {[1..n -> 0..MAX_CHUNK_SIZE] : n \in 0..MaxReads}

\* The chunk sizes a caller can ask Chunker::with_size for.
RequestedSizes == (MIN_CHUNK_SIZE - 1)..(MAX_CHUNK_SIZE + 1)

\* Chunker::with_size(size).chunk_file(path) on a file holding content.
ChunkFileCall(content, size, reads) ==
    /\ pc = "idle"
    /\ pc' = "done"
    /\ ret' = [op |-> "chunk_file", res |-> "Ok", id |-> with_size(size),
               data |-> [content |-> content, reads |-> reads, requested |-> size,
                         chunks |-> chunk_file_reads(content, with_size(size), reads)]]
    /\ UNCHANGED <<repo, next_id, id_str, bk, rs, dl, dest, backed_up, chunk_refs>>

\* Chunker::with_size(size).chunk_bytes(content).
ChunkBytesCall(content, size) ==
    /\ pc = "idle"
    /\ pc' = "done"
    /\ ret' = [op |-> "chunk_bytes", res |-> "Ok", id |-> with_size(size),
               data |-> [content |-> content, reads |-> <<>>, requested |-> size,
                         chunks |-> chunk_bytes(content, with_size(size))]]
    /\ UNCHANGED <<repo, next_id, id_str, bk, rs, dl, dest, backed_up, chunk_refs>>

NextChunker ==
    \/ \E content \in FileContents, size \in RequestedSizes, reads \in ReadSchedules :
           ChunkFileCall(content, size, reads)
    \/ \E content \in FileContents, size \in RequestedSizes :
           ChunkBytesCall(content, size)
    \/ Exit

SpecChunker == Init /\ [][NextChunker]_vars

\* ------------------------------------------ backups and deletes that complete
\* Backup and delete commands one after the other, none killed and no I/O
\* call failing: every backup returns Ok, and a delete returns what its
\* arguments and the repository make it return.
NextCompleted ==
    \/ \E src \in Trees : BackupStart(src, Tick, 0)
    \/ BackupWalk
    \/ BackupChunkFile
    \/ BackupStoreChunk
    \/ BackupWriteChunk
    \/ BackupRecord
    \/ BackupWalkEnd
    \/ BackupIndexCreate
    \/ BackupIndexWrite
    \/ BackupManifestCreate
    \/ BackupManifestWrite
    \/ \E s \in 0..MaxSnapshots, all, repo_exists \in BOOLEAN :
           DeleteStart(s, all, repo_exists)
    \/ DeleteSingle
    \/ DeleteAllStep
    \/ Exit

SpecCompleted == Init /\ [][NextCompleted]_vars

\* ------------------------------------------------- two backups at one time
\* Two backup processes on one repository, no lock between them (the code
\* takes none).  Here pc, bk and ret hold one entry per process; process p
\* draws the snapshot id p.  The steps of one process are the I/O calls of
\* backup that touch what the other process reads: the load of the index,
\* the chunk phase, the two halves of fs::write on index.json, the write of
\* its own manifest.
Backups == {1, 2}

InitConcurrent ==
    /\ chunk_files = EmptyFn
    /\ manifests = EmptyFn
    /\ index_json = AbsentFile
    /\ data_dirs = {}
    /\ next_id = 1
    /\ id_str = EmptyFn
    /\ pc = [p \in Backups |-> "idle"]
    /\ bk = [p \in Backups |-> NoBackup]
    /\ rs = NoRestore
    /\ dl = NoDelete
    /\ dest = EmptyFn
    /\ ret = [p \in Backups |-> NoRet]
    /\ backed_up = EmptyFn
    /\ chunk_refs = EmptyIndex

\* The bytes of the chunks of a source tree.
tree_chunk_data(tree) ==
    UNION {{SubSeq(tree[f], ch.offset + 1, ch.offset + ch.size) :
                ch \in Range(chunk_file(tree[f]))} : f \in DOMAIN tree}

\* backup, lines 28-35: the repository is opened and the index loaded into
\* the memory of the process; an index.json that does not parse ends the
\* backup with the error.
ConcurrentBackupStart(p, src) ==
    /\ pc[p] = "idle"
    /\ LET r == index_load(index_json)
       IN  IF r.ok
           THEN /\ bk' = [bk EXCEPT ![p] = [NoBackup EXCEPT !.sid = p, !.src = src,
                                                           !.index = r.index,
                                                           !.index0 = index_json]]
                /\ pc' = [pc EXCEPT ![p] = "bk_walk"]
                /\ UNCHANGED ret
           ELSE /\ pc' = [pc EXCEPT ![p] = "done"]
                /\ ret' = [ret EXCEPT ![p] = Returned("backup", "Json", p)]
                /\ UNCHANGED bk
    /\ UNCHANGED <<repo, next_id, id_str, rs, dl, dest, backed_up, chunk_refs>>

\* perform_chunked_backup and backup, lines 50-66: every chunk of the source
\* is in the store (a chunk whose file exists is left as it is), the
\* manifest is built and added to the index in the memory of the process.
ConcurrentBackupWalk(p) ==
    /\ pc[p] = "bk_walk"
    /\ LET m == manifest_of(p, bk[p].src)
       IN  /\ chunk_files' =
                [c \in DOMAIN chunk_files \cup {hash_bytes(d) : d \in tree_chunk_data(bk[p].src)} |->
                    IF c \in DOMAIN chunk_files THEN chunk_files[c] ELSE c.blake3]
           /\ bk' = [bk EXCEPT ![p].manifest = m,
                               ![p].index = add_snapshot(bk[p].index, p, m.files)]
    /\ pc' = [pc EXCEPT ![p] = "bk_index_create"]
    /\ UNCHANGED <<manifests, index_json, data_dirs, next_id, id_str, rs, dl, dest, ret,
                   backed_up, chunk_refs>>

\* index.save, fs::write: index.json is created or truncated ...
ConcurrentBackupIndexCreate(p) ==
    /\ pc[p] = "bk_index_create"
    /\ index_json' = TornFile
    /\ pc' = [pc EXCEPT ![p] = "bk_index_write"]
    /\ UNCHANGED <<chunk_files, manifests, data_dirs, next_id, id_str, bk, rs, dl, dest, ret,
                   backed_up, chunk_refs>>

\* ... and then holds the index of this process.
ConcurrentBackupIndexWrite(p) ==
    /\ pc[p] = "bk_index_write"
    /\ index_json' = WholeFile(serialize(bk[p].index))
    /\ bk' = [bk EXCEPT ![p].index_saved = TRUE]
    /\ pc' = [pc EXCEPT ![p] = "bk_manifest_write"]
    /\ UNCHANGED <<chunk_files, manifests, data_dirs, next_id, id_str, rs, dl, dest, ret,
                   backed_up, chunk_refs>>

\* backup, lines 69-76 and the return: the manifest file of the process,
\* which no other process reads or writes, and Ok.
ConcurrentBackupManifestWrite(p) ==
    /\ pc[p] = "bk_manifest_write"
    /\ manifests' = Put(manifests, p, WholeFile(bk[p].manifest))
    /\ pc' = [pc EXCEPT ![p] = "done"]
    /\ ret' = [ret EXCEPT ![p] = Returned("backup", "Ok", p)]
    /\ UNCHANGED <<chunk_files, index_json, data_dirs, next_id, id_str, bk, rs, dl, dest,
                   backed_up, chunk_refs>>

NextConcurrent ==
    \/ \E p \in Backups, src \in Trees : ConcurrentBackupStart(p, src)
    \/ \E p \in Backups : ConcurrentBackupWalk(p)
    \/ \E p \in Backups : ConcurrentBackupIndexCreate(p)
    \/ \E p \in Backups : ConcurrentBackupIndexWrite(p)
    \/ \E p \in Backups : ConcurrentBackupManifestWrite(p)

SpecConcurrent == InitConcurrent /\ [][NextConcurrent]_vars

\* ------------------------------------------------------------------ claims
\* The manifests that are complete files, and the chunk ids they list.
Live(ms) == {s \in DOMAIN ms : ms[s].st = "ok"}

Referenced(ms, ids) == UNION {manifest_chunks(ms[s].val.files) : s \in Live(ms) \cap ids}

\* The index as ChunkIndex::rebuild computes it from the complete manifests.
Rebuilt(ms) ==
    [c \in Referenced(ms, DOMAIN ms) |->
        {s \in Live(ms) : c \in manifest_chunks(ms[s].val.files)}]

\* A consistent repository: every manifest is complete, the store holds
\* exactly the chunks the manifests list, each file holding its chunk, and
\* index.json is the index of the manifests.
Consistent ==
    /\ Live(manifests) = DOMAIN manifests
    /\ DOMAIN chunk_files = Referenced(manifests, DOMAIN manifests)
    /\ \A h \in DOMAIN chunk_files : hash_bytes(chunk_files[h]) = h
    /\ index_json.st = "ok"
    /\ deserialize(index_json.val) = Rebuilt(manifests)

BackupRunning == pc \in {"bk_walk", "bk_chunk", "bk_store", "bk_write", "bk_record",
                         "bk_index_create", "bk_index_write", "bk_manifest_create",
                         "bk_manifest_write"}

\* C1 (invariant I1): in every reachable state, also after commands that were
\* killed or failed at any step, every chunk id listed by a manifest in
\* snapshots/ has a file in the chunk store; a delete removes no chunk that a
\* remaining manifest lists.
C1_ManifestChunksStored ==
    \A s \in Live(manifests) :
        \A c \in manifest_chunks(manifests[s].val.files) : contains(chunk_files, c)

\* C1 witness: a delete has run to its end and a manifest that lists chunks is
\* still there, after some backup was cut short.
C1_Witness ==
    /\ pc = "done" /\ ret.op = "delete"
    /\ next_id - 1 > Cardinality(DOMAIN backed_up)
    /\ \E s \in Live(manifests) : manifest_chunks(manifests[s].val.files) # {}

\* C2 (ordering contract), as claimed: within one backup every chunk of the
\* snapshot is in the store before the manifest file is written, and the
\* manifest file is written before the updated index is persisted.
C2_ChunksThenManifestThenIndex ==
    (BackupRunning \/ (pc = "done" /\ ret.op = "backup" /\ ret.id # 0)) =>
        /\ bk.sid \in DOMAIN manifests =>
               \A c \in manifest_chunks(bk.manifest.files) : contains(chunk_files, c)
        /\ bk.index_saved => bk.sid \in Live(manifests)

\* C3, as claimed: a backup that was killed or returned an error leaves no
\* manifest for its snapshot and an index.json identical to the one it found.
C3_TerminatedBackupLeavesOnlyChunks ==
    (pc = "done" /\ ret.op = "backup" /\ ret.id # 0 /\ ret.res # "Ok") =>
        /\ bk.sid \notin DOMAIN manifests
        /\ index_json = bk.index0

\* C4 (invariant I3), as claimed: in every reachable state, also while or
\* after an insert is interrupted between creating the file and the end of
\* the write, every chunk file that exists holds bytes whose hash is its name.
C4_ChunkFilesHashToTheirName ==
    \A h \in DOMAIN chunk_files : hash_bytes(chunk_files[h]) = h

\* A delete of the one snapshot s has run to its end (it was not killed).
SingleDeleteEnds(s) ==
    /\ pc = "dl_single" /\ pc' = "done"
    /\ ret'.op = "delete" /\ ret'.res # "Killed" /\ ret'.id = s

\* delete(repo, None, true) has returned Ok.
DeleteAllEnds ==
    /\ pc = "dl_all" /\ pc' = "done"
    /\ ret'.op = "delete" /\ ret'.res = "Ok"

\* C5 (GC soundness), as claimed: after the delete of snapshot s on a
\* consistent repository every chunk file still in the store is listed by a
\* manifest other than s: the chunks only s listed are gone.  After a delete
\* of all snapshots the chunk store holds no file.
C5_DeleteCollectsOrphans ==
    [][/\ \A s \in SnapshotIds :
            (SingleDeleteEnds(s) /\ Consistent /\ s \in Live(manifests)) =>
                DOMAIN chunk_files' \subseteq
                    Referenced(manifests', DOMAIN manifests' \ {s})
       /\ (DeleteAllEnds /\ Consistent) => DOMAIN chunk_files' = {}]_vars

\* C6, as claimed: for a snapshot s written by a successful backup,
\* delete(repo, Some(s), false) returns Ok and snapshots/<s>.json is gone.
C6_DeleteRemovesManifest ==
    [][\A s \in SnapshotIds :
          (SingleDeleteEnds(s) /\ s \in DOMAIN backed_up /\ s \in Live(manifests)) =>
              (ret'.res = "Ok" /\ s \notin DOMAIN manifests')]_vars

\* C7, as claimed: after any number of successful backups,
\* delete(repo, None, true) returns Ok and leaves no manifest file.
C7_DeleteAllLeavesNoManifest ==
    (/\ pc = "done" /\ ret.op = "delete" /\ dl.all /\ ret.res # "Killed"
     /\ next_id - 1 = Cardinality(DOMAIN backed_up)) =>
        (ret.res = "Ok" /\ DOMAIN manifests = {})

\* C8, as claimed: after the delete of snapshot s the persisted index has s
\* in no chunk's snapshot set and no key for a chunk only s listed; after the
\* delete of the only snapshot, or of all snapshots, it is empty.
C8_DeleteUpdatesIndex ==
    [][/\ \A s \in SnapshotIds :
            (SingleDeleteEnds(s) /\ Consistent /\ s \in Live(manifests)) =>
                /\ index_json'.st = "ok"
                /\ \A c \in DOMAIN index_json'.val : s \notin Range(index_json'.val[c])
                /\ DOMAIN index_json'.val \subseteq
                       Referenced(manifests, DOMAIN manifests \ {s})
                /\ Live(manifests) = {s} => DOMAIN index_json'.val = {}
       /\ (DeleteAllEnds /\ Consistent) =>
              (index_json'.st = "ok" /\ DOMAIN index_json'.val = {})]_vars

\* C9 (round trip), as claimed: the restore of a snapshot that a backup
\* wrote, into a fresh destination, succeeds and leaves exactly the relative
\* paths of the source tree, each with the bytes of the source file.
C9_RestoreYieldsSource ==
    (/\ pc = "done" /\ ret.op = "restore" /\ ret.res \notin {"Killed", "Io"}
     /\ ret.id \in DOMAIN backed_up) =>
        (ret.res = "Ok" /\ dest = backed_up[ret.id])

\* C10 (tamper detection): read(id) returns no bytes whose hash differs from
\* id; when the bytes of the chunk file do not hash to id (they were changed
\* after the insert) it fails with the corruption error, and when there is no
\* chunk file it fails with the chunk-not-found error.
C10_ReadVerifies ==
    ret.op = "read" =>
        /\ ret.res = "Ok" => (hash_bytes(ret.data) = ret.id /\ ret.data = chunk_files[ret.id])
        /\ ~contains(chunk_files, ret.id) => ret.res = "ChunkNotFound"
        /\ (contains(chunk_files, ret.id) /\ hash_bytes(chunk_files[ret.id]) # ret.id) =>
               ret.res = "ChunkCorrupted"
        /\ ret.res \in {"Ok", "ChunkNotFound", "ChunkCorrupted"}

\* C10 witness: a chunk was inserted and its bytes were changed afterwards; the
\* read of it has failed with the corruption error.
C10_Witness ==
    /\ ret.op = "read" /\ ret.res = "ChunkCorrupted"
    /\ contains(chunk_files, ret.id)
    /\ chunk_files[ret.id] # <<>>

\* C11, as claimed: when restore ends because a chunk is corrupt or missing,
\* every file at the destination holds the complete content its record in
\* the manifest stands for: no partly written file is left.
C11_FailedRestoreLeavesNoPartialFile ==
    (/\ pc = "done" /\ ret.op = "restore"
     /\ ret.res \in {"ChunkCorrupted", "ChunkNotFound"}) =>
        \A p \in DOMAIN dest :
            \E i \in DOMAIN rs.files :
                /\ rs.files[i].rel_path = p
                /\ Some(hash_file(dest[p])) = rs.files[i].content_hash

\* C12 (insert idempotence): on every store the program can reach, for
\* every chunk b with id = hash_bytes(b) that has no file, store(id, b)
\* returns true and leaves b in the file; a second store(id, b) returns
\* false and leaves every chunk file as the first call left it.
C12_StoreTwice ==
    \A b \in ChunkData :
        LET id     == hash_bytes(b)
            first  == store(chunk_files, id, b)
            second == store(first.st, id, b)
        IN  ~contains(chunk_files, id) =>
                /\ first.res = "Ok(true)"
                /\ first.st = Put(chunk_files, id, b)
                /\ second.res = "Ok(false)"
                /\ second.st = first.st

\* C12 witness: a store of a chunk that is already there has returned false
\* and the file holds the bytes of the chunk.
C12_Witness ==
    /\ ret.op = "store" /\ ret.res = "Ok(false)"
    /\ hash_bytes(ret.data) = ret.id
    /\ contains(chunk_files, ret.id)
    /\ chunk_files[ret.id] = ret.data

\* C13 (read after write), as claimed: after store(id, b) has returned Ok,
\* true or false, read(id) returns exactly b.
C13_ReadAfterStore ==
    (ret.op = "store" /\ ret.res \in {"Ok(true)", "Ok(false)"}) =>
        (read(chunk_files, ret.id).ok /\ read(chunk_files, ret.id).data = ret.data)

\* C14: store(id, bytes) with hash_bytes(bytes) # id on a store without id
\* fails with the hash mismatch error and writes nothing: there is still no
\* file for id and every other chunk file is as it was.
C14_MismatchWritesNothing ==
    [][(/\ ret'.op = "store" /\ hash_bytes(ret'.data) # ret'.id
        /\ ~contains(chunk_files, ret'.id)) =>
           /\ ret'.res = "HashMismatch"
           /\ ~contains(chunk_files', ret'.id)
           /\ chunk_files' = chunk_files]_vars

\* C14 witness: a store with bytes of another hash has failed on a store
\* that holds other chunks and no file for the id.
C14_Witness ==
    /\ ret.op = "store" /\ ret.res = "HashMismatch"
    /\ hash_bytes(ret.data) # ret.id
    /\ ~contains(chunk_files, ret.id)
    /\ DOMAIN chunk_files # {}

\* The snapshots an index has for a chunk, none when it has no key for it.
RefsOf(index, c) == IF c \in DOMAIN index THEN index[c] ELSE {}

\* C15: after add_snapshot(M) on any index the program can hold, every chunk
\* of a file of M is referenced and has M.snapshot_id in its snapshot set;
\* the entries of the other chunks, and the other snapshots of the chunks of
\* M, are as they were.
C15_AddSnapshotReferences ==
    \A M \in IndexManifests :
        LET new == add_snapshot(chunk_refs, M.snapshot_id, M.files)
            cs  == manifest_chunks(M.files)
        IN  /\ \A c \in cs : is_referenced(new, c) /\ M.snapshot_id \in new[c]
            /\ DOMAIN new = DOMAIN chunk_refs \cup cs
            /\ \A c \in DOMAIN chunk_refs \ cs : new[c] = chunk_refs[c]
            /\ \A c \in cs : new[c] \ {M.snapshot_id} =
                                  RefsOf(chunk_refs, c) \ {M.snapshot_id}

\* C15 witness: add_snapshot has run on an index that held another snapshot:
\* one chunk is now shared by two snapshots, another one is not a chunk of
\* the snapshot added.
C15_Witness ==
    /\ ret.op = "add_snapshot"
    /\ \E c \in DOMAIN chunk_refs : ret.id \in chunk_refs[c] /\ Cardinality(chunk_refs[c]) = 2
    /\ \E c \in DOMAIN chunk_refs : ret.id \notin chunk_refs[c]

\* C16, as claimed: for any index, remove_snapshot(M) returns exactly the
\* chunks of M that no snapshot references once M.snapshot_id is taken out,
\* removes exactly those keys and keeps every chunk another snapshot
\* references.
C16_RemoveReturnsUnreferencedChunks ==
    \A M \in IndexManifests :
        LET r  == remove_snapshot(chunk_refs, M.snapshot_id, M.files)
            cs == manifest_chunks(M.files)
        IN  /\ r.orphaned_chunks = {c \in cs : RefsOf(chunk_refs, c) \ {M.snapshot_id} = {}}
            /\ DOMAIN r.index = DOMAIN chunk_refs \ r.orphaned_chunks
            /\ \A c \in DOMAIN r.index :
                   r.index[c] = IF c \in cs THEN chunk_refs[c] \ {M.snapshot_id}
                                ELSE chunk_refs[c]

\* C16, amended: remove_snapshot(M) returns exactly the chunks of M that are
\* keys of the index and that no snapshot references once M.snapshot_id is
\* taken out (a chunk of M the index has no key for is not returned); it
\* removes exactly those keys and keeps every chunk another snapshot
\* references, with M.snapshot_id taken out of its set.
C16_RemoveReturnsOrphanedKeys ==
    \A M \in IndexManifests :
        LET r  == remove_snapshot(chunk_refs, M.snapshot_id, M.files)
            cs == manifest_chunks(M.files)
        IN  /\ r.orphaned_chunks =
                   {c \in cs \cap DOMAIN chunk_refs : chunk_refs[c] \ {M.snapshot_id} = {}}
            /\ DOMAIN r.index = DOMAIN chunk_refs \ r.orphaned_chunks
            /\ \A c \in DOMAIN r.index :
                   r.index[c] = IF c \in cs THEN chunk_refs[c] \ {M.snapshot_id}
                                ELSE chunk_refs[c]

\* C16 witness: remove_snapshot has returned a chunk as orphaned and has kept
\* a chunk that another snapshot references.
C16_Witness ==
    /\ ret.op = "remove_snapshot"
    /\ ret.data # {}
    /\ \E c \in DOMAIN chunk_refs : ret.id \notin chunk_refs[c]

\* The index after add_snapshot for each manifest file, in the given order.
RECURSIVE AddAll(_, _, _)
AddAll(index, ms, order) ==
    IF order = <<>> THEN index
    ELSE AddAll(add_snapshot(index, ms[Head(order)].val.snapshot_id,
                             ms[Head(order)].val.files),
                ms, Tail(order))

\* C17 (rebuild equivalence): with every manifest file of snapshots/ whole,
\* rebuild succeeds and the index it yields is the one that add_snapshot,
\* called from an empty index once for each manifest in any order, yields;
\* a second rebuild, in whatever order the directory is read, yields the
\* same.
C17_RebuildIsAddSnapshots ==
    Live(manifests) = DOMAIN manifests =>
        /\ ret.op = "rebuild" =>
               /\ ret.res = "Ok"
               /\ \A o \in Orders(DOMAIN manifests) :
                      chunk_refs = AddAll(EmptyIndex, manifests, o)
        /\ \A o1, o2 \in Orders(DOMAIN manifests) :
               /\ rebuild(manifests, o1).ok
               /\ rebuild(manifests, o1).index = rebuild(manifests, o2).index

\* C17 witness: rebuild has run over two manifests that share a chunk.
C17_Witness ==
    /\ ret.op = "rebuild" /\ ret.res = "Ok"
    /\ Cardinality(DOMAIN manifests) >= 2
    /\ \E c \in DOMAIN chunk_refs : Cardinality(chunk_refs[c]) >= 2

\* Every backup started so far has returned Ok.
AllBackupsEnded == next_id - 1 = Cardinality(DOMAIN backed_up)

\* The chunk ids that are keys of the persisted index.
IndexKeys == IF index_json.st = "ok" THEN DOMAIN index_json.val ELSE {}

RECURSIVE StoredBytes(_)
StoredBytes(ids) ==
    IF ids = {} THEN 0
    ELSE LET c == CHOOSE x \in ids : TRUE
         IN  (IF contains(chunk_files, c) THEN Len(chunk_files[c]) ELSE 0)
             + StoredBytes(ids \ {c})

\* C19: in every manifest backup has written, total_chunks is the number of
\* distinct chunk ids in the manifest's files and deduplicated_bytes is the
\* sum of the sizes of the chunk files of those ids.
C19_ManifestTotals ==
    \A s \in Live(manifests) :
        LET m == manifests[s].val
        IN  /\ m.total_chunks = Cardinality(manifest_chunks(m.files))
            /\ m.deduplicated_bytes = StoredBytes(manifest_chunks(m.files))

\* C19 witness: a manifest is written whose files list a chunk more than
\* once, and more than one chunk.
C19_Witness ==
    \E s \in Live(manifests) :
        LET m == manifests[s].val
        IN  /\ m.total_chunks >= 2
            /\ Len(flat_chunks(m.files)) > m.total_chunks

\* The aligned windows of the files of a source tree.
Windows(src) ==
    UNION {{SubSeq(src[p], ch.offset + 1, ch.offset + ch.size) :
                ch \in Range(chunk_file(src[p]))} : p \in DOMAIN src}

\* The store holds one chunk for each distinct window of the source of
\* snapshot s, and the manifest counts as many chunks.
OneChunkPerWindow(s) ==
    /\ \A w \in Windows(backed_up[s]) : contains(chunk_files, hash_bytes(w))
    /\ manifest_chunks(manifests[s].val.files) = {hash_bytes(w) : w \in Windows(backed_up[s])}
    /\ manifests[s].val.total_chunks = Cardinality(Windows(backed_up[s]))

\* C20 (dedup), as claimed: for every source with two files of identical
\* content the store holds one chunk per distinct aligned window and the
\* manifest has deduplicated_bytes < total_bytes.
C20_IdenticalFilesDedup ==
    \A s \in DOMAIN backed_up \cap Live(manifests) :
        (\E p, q \in DOMAIN backed_up[s] : p # q /\ backed_up[s][p] = backed_up[s][q]) =>
            /\ OneChunkPerWindow(s)
            /\ manifests[s].val.deduplicated_bytes < manifests[s].val.total_bytes

\* C20, amended: for every source with two files of identical content that
\* is not empty, the store holds one chunk per distinct aligned window and
\* the manifest has deduplicated_bytes < total_bytes; with two empty files
\* both are 0.
C20_IdenticalNonEmptyFilesDedup ==
    \A s \in DOMAIN backed_up \cap Live(manifests) :
        (\E p, q \in DOMAIN backed_up[s] : p # q /\ backed_up[s][p] = backed_up[s][q]) =>
            /\ OneChunkPerWindow(s)
            /\ IF \E p \in DOMAIN backed_up[s] : backed_up[s][p] # <<>>
               THEN manifests[s].val.deduplicated_bytes < manifests[s].val.total_bytes
               ELSE /\ manifests[s].val.deduplicated_bytes = 0
                    /\ manifests[s].val.total_bytes = 0

\* C20 witness: a backup of two files with the same two chunks has returned
\* Ok and its manifest is written.
C20_Witness ==
    \E s \in DOMAIN backed_up \cap Live(manifests) :
        /\ DOMAIN backed_up[s] = Paths
        /\ backed_up[s][<<"a">>] = <<0, 1, 1>>
        /\ backed_up[s][<<"d", "b">>] = <<0, 1, 1>>
        /\ manifests[s].val.total_bytes = 6


\* The size of the chunk with id h: the length of the bytes that hash to it.
chunk_len(h) == Len(h.blake3)

RECURSIVE sum_chunk_len(_)
sum_chunk_len(chunks) ==
    IF chunks = <<>> THEN 0
    ELSE chunk_len(chunks[1]) + sum_chunk_len(Tail(chunks))

\* C21 (invariant I4): in every manifest a backup wrote, also when the source
\* file's length changed between the steps that process the file (metadata
\* read, chunking, chunk re-read), the size of every file record equals the
\* sum of the sizes of the chunks its chunks field lists.
C21_RecordSizeIsSumOfChunks ==
    \A s \in Live(manifests) :
        \A i \in DOMAIN manifests[s].val.files :
            LET file == manifests[s].val.files[i]
            IN  file.size = sum_chunk_len(file.chunks)


\* C22: a restore of a snapshot that exists, into a destination directory
\* that holds an entry, ends with DestinationNotEmpty before anything is
\* written: no file step of the restore runs, and the destination holds what
\* it held.  (When the snapshot asked for does not exist the restore has
\* already ended with SnapshotNotFound or NoSnapshots, the destination
\* untouched as well.)
C22_NonEmptyDestinationRefused ==
    /\ pc \in {"rs_file", "rs_chunk"} => rs.dest0 = EmptyFn
    /\ (pc = "done" /\ ret.op = "restore" /\ rs.dest0 # EmptyFn) =>
          /\ dest = rs.dest0
          /\ IF ret.id \in DOMAIN manifests
             THEN ret.res = "DestinationNotEmpty"
             ELSE ret.res \in {"SnapshotNotFound", "NoSnapshots"}

\* A restore of a complete manifest that lists the file "a" was refused for a
\* destination that holds a file "a" of its own.
C22_Witness ==
    /\ pc = "done" /\ ret.op = "restore" /\ ret.res = "DestinationNotEmpty"
    /\ <<"a">> \in DOMAIN dest
    /\ ret.id \in Live(manifests)
    /\ \E i \in DOMAIN manifests[ret.id].val.files :
           manifests[ret.id].val.files[i].rel_path = <<"a">>


\* What makes a rel_path unsafe: it is absolute, it has a parent-directory
\* component, or it holds a NUL byte.
Absolute(p) == p # <<>> /\ p[1] = "/"
HasParentDir(p) == \E i \in DOMAIN p : p[i] = ".."
HasNul(p) == \E i \in DOMAIN p : p[i] = "\\0"
Unsafe(p) == Absolute(p) \/ HasParentDir(p) \/ HasNul(p)

\* C23: whatever the manifest holds, also when it was edited by hand, restore
\* creates no file for a record whose rel_path is absolute, has a
\* parent-directory component or holds a NUL byte, so every file it creates
\* is inside the destination; the restore still returns Ok and every other
\* record of the manifest is restored with its content.
C23_UnsafePathsSkipped ==
    /\ \A p \in DOMAIN dest : ~Unsafe(p)
    /\ (pc = "done" /\ ret.op = "restore" /\ rs.fi > 0) =>
          /\ ret.res = "Ok"
          /\ \A i \in DOMAIN rs.files :
                 LET file == rs.files[i]
                 IN  \/ Unsafe(file.rel_path)
                     \/ /\ file.rel_path \in DOMAIN dest
                        /\ Some(hash_file(dest[file.rel_path])) = file.content_hash

\* A restore returned Ok for a manifest with one unsafe record, which it
\* skipped, and one safe record, which it restored.
C23_Witness ==
    /\ pc = "done" /\ ret.op = "restore" /\ ret.res = "Ok"
    /\ \E i, j \in DOMAIN rs.files :
           /\ Unsafe(rs.files[i].rel_path)
           /\ rs.files[j].rel_path \in DOMAIN dest
           /\ dest[rs.files[j].rel_path] # <<>>


\* The snapshot made last among those that have a manifest file.
Newest == CHOOSE s \in DOMAIN manifests : \A t \in DOMAIN manifests : t <= s

\* The clock reading written in a snapshot id.
timestamp_of(id) == (id[1] - 48) * 10 + (id[2] - 48)

C25_UnreadableFileNeverAborts ==
    (/\ pc = "done" /\ ret.op = "backup"
     /\ Cardinality(bk.unreadable) = 1 /\ bk.changes = 1) =>
        /\ ret.res = "Ok"
        /\ bk.sid \in Live(manifests)
        /\ \A p \in DOMAIN bk.src \ bk.unreadable :
               \E i \in DOMAIN manifests[bk.sid].val.files :
                   manifests[bk.sid].val.files[i].rel_path = p


\* C26 (manifest immutability): a manifest file that a backup wrote keeps
\* its content under every later step of backup, restore, list and delete;
\* the only thing that can happen to it is its removal by a delete that was
\* asked to delete that snapshot.
C26_ManifestImmutable ==
    [][\A s \in Live(manifests) :
           \/ s \in DOMAIN manifests' /\ manifests'[s] = manifests[s]
           \/ /\ s \notin DOMAIN manifests'
              /\ pc \in {"dl_single", "dl_all"}
              /\ s \in dl.todo]_vars

\* The manifest of the first snapshot is as its backup wrote it after a
\* second backup has written its own and a later command has ended.
C26_Witness ==
    /\ pc = "done" /\ ret.op \in {"restore", "delete", "list"}
    /\ Live(manifests) = {1, 2}
    /\ DOMAIN backed_up = {1, 2}
    /\ manifests[1].val.snapshot_id = 1
    /\ manifests[1].val.total_files = Cardinality(DOMAIN backed_up[1])
    /\ manifests[1].val.total_files > 0


\* C27: every backup that returns Ok, also one of an empty source or of a
\* source identical to the one of the previous snapshot, adds exactly one
\* manifest file, under a name no manifest had, and leaves every other
\* manifest file in place and as it was; so there are as many complete
\* manifests as backups that returned Ok.
C27_OneManifestPerBackup ==
    [][/\ Cardinality(Live(manifests)) = Cardinality(DOMAIN backed_up)
       /\ BackupRunning =>
             /\ pc # "bk_manifest_write" => bk.sid \notin DOMAIN manifests
             /\ DOMAIN manifests' \subseteq DOMAIN manifests \cup {bk.sid}
             /\ \A s \in DOMAIN manifests \ {bk.sid} :
                    s \in DOMAIN manifests' /\ manifests'[s] = manifests[s]
             /\ (pc' = "done" /\ ret'.res = "Ok") =>
                    /\ bk.sid \in Live(manifests')
                    /\ Cardinality(Live(manifests')) = Cardinality(Live(manifests)) + 1]_vars

\* Two backups of the same non-empty source have returned Ok and each has its
\* manifest.
C27_Witness ==
    /\ pc = "done" /\ ret.op = "backup" /\ ret.res = "Ok" /\ ret.id = 2
    /\ DOMAIN backed_up = {1, 2}
    /\ backed_up[1] = backed_up[2]
    /\ backed_up[1] # EmptyFn
    /\ Live(manifests) = {1, 2}


\* The step in which a delete command starts; dl' holds its arguments.
DeleteStarts ==
    /\ pc = "idle"
    /\ \/ pc' \in {"dl_single", "dl_all"}
       \/ pc' = "done" /\ ret'.op = "delete"

\* C28: delete called with both a snapshot id and the all flag ends with
\* DeleteArgsConflict, and called with neither ends with DeleteArgsRequired;
\* in both cases it ends in that step, whether or not the path given is a
\* repository (the check comes before the repository is opened), and
\* nothing of the repository has changed.
C28_DeleteArgsChecked ==
    [][DeleteStarts =>
          /\ (dl'.snapshot_id_opt # 0 /\ dl'.all) =>
                 pc' = "done" /\ ret'.res = "DeleteArgsConflict" /\ repo' = repo
          /\ (dl'.snapshot_id_opt = 0 /\ ~dl'.all) =>
                 pc' = "done" /\ ret'.res = "DeleteArgsRequired" /\ repo' = repo]_vars

\* A delete with the id of an existing snapshot and the all flag has ended
\* with DeleteArgsConflict, the snapshot's manifest still there.
C28_Witness ==
    /\ pc = "done" /\ ret.op = "delete" /\ ret.res = "DeleteArgsConflict"
    /\ dl.all /\ dl.snapshot_id_opt \in Live(manifests)


\* The chunk list a call of the chunker returned, and what it was called with.
ChunkerReturned == pc = "done" /\ ret.op \in {"chunk_file", "chunk_bytes"}

RECURSIVE sum_chunk_sizes(_)
sum_chunk_sizes(chunks) ==
    IF chunks = <<>> THEN 0 ELSE chunks[1].size + sum_chunk_sizes(Tail(chunks))

\* C29 (chunker coverage): for an input of length L and a chunker of size
\* chunk_size, the chunks returned start at offsets 0, s1, s1+s2, ... with
\* no gap and no overlap, their sizes sum to L, every size is in
\* 1..chunk_size, only the last chunk is smaller than chunk_size, and an
\* empty input gives no chunk.
C29_ChunkerCoverage ==
    ChunkerReturned =>
        LET chunks == ret.data.chunks
            L      == Len(ret.data.content)
        IN  /\ \A k \in DOMAIN chunks :
                   /\ chunks[k].offset = sum_chunk_sizes(SubSeq(chunks, 1, k - 1))
                   /\ chunks[k].size \in 1..ret.id
                   /\ k < Len(chunks) => chunks[k].size = ret.id
            /\ sum_chunk_sizes(chunks) = L
            /\ L = 0 => chunks = <<>>

\* chunk_file returned several chunks for a file of MaxFileLen bytes, the
\* last one shorter than the chunk size, after a read that was cut short.
C29_Witness ==
    /\ ChunkerReturned /\ ret.op = "chunk_file"
    /\ Len(ret.data.content) = MaxFileLen
    /\ Len(ret.data.chunks) >= 2
    /\ ret.data.chunks[Len(ret.data.chunks)].size < ret.id
    /\ ret.data.reads # <<>> /\ ret.data.reads[1] = 1

\* C30: chunk_file on a file holding the bytes `content` returns the same
\* sequence of (hash, size, offset) as chunk_bytes(content), for every
\* content and every chunk size, also when reads of the file return fewer
\* bytes than asked for or fail with Interrupted; and the chunker backup
\* uses is chunk_file at the default size.
C30_ChunkFileIsChunkBytes ==
    /\ ChunkerReturned => ret.data.chunks = chunk_bytes(ret.data.content, ret.id)
    /\ ChunkerReturned => chunk_file(ret.data.content)
                              = chunk_file_reads(ret.data.content, chunk_size, ret.data.reads)

\* chunk_file returned two chunks for a file read with an Interrupted error
\* and a short read inside a chunk.
C30_Witness ==
    /\ ChunkerReturned /\ ret.op = "chunk_file"
    /\ Len(ret.data.chunks) = 2
    /\ ret.id = 2
    /\ ret.data.reads = <<0, 1>>


\* ceil(L / n) for n > 0.
ceil_div(L, n) == (L + n - 1) \div n

\* The chunks of L bytes cut every n bytes: ceil(L/n) chunks, the i-th
\* (counted from 0) at offset i*n with size min(n, L - i*n).
CutEvery(chunks, L, n) ==
    /\ Len(chunks) = ceil_div(L, n)
    /\ \A k \in DOMAIN chunks :
           /\ chunks[k].offset = (k - 1) * n
           /\ chunks[k].size = Min(n, L - (k - 1) * n)

SourceChunks ==
    UNION {{chunk_file(bk.src[p])[k].hash : k \in DOMAIN chunk_file(bk.src[p])} :
           p \in DOMAIN bk.src}

\* The step in which the insertion of one chunk by the running backup ends.
ChunkInserted ==
    /\ pc \in {"bk_store", "bk_write"}
    /\ pc' \in {"bk_store", "bk_record"}
    /\ bk'.unique # bk.unique \/ bk'.i # bk.i

\* The running backup has created no chunk file so far, and every chunk of
\* its source has a file: they all had one when the backup started.
AllChunksKnown ==
    /\ BackupRunning
    /\ pc # "bk_write" /\ bk.stats.new_chunks = 0
    /\ SourceChunks \subseteq DOMAIN chunk_files

\* C33 (cross-snapshot dedup): a backup of a source whose every chunk has a
\* file in the store when the backup starts creates and writes no chunk
\* file in any of its steps: the chunk files and their bytes stay as they
\* are, and every chunk insertion is counted as reused, none as new.
C33_KnownChunksNotRewritten ==
    [][AllChunksKnown =>
          /\ chunk_files' = chunk_files
          /\ pc' # "bk_write"
          /\ bk'.stats.new_chunks = 0
          /\ ChunkInserted => bk'.stats.reused_chunks = bk.stats.reused_chunks + 1]_vars

\* A second backup of an unchanged source with chunks returned Ok with every
\* insertion counted as reused.
C33_Witness ==
    /\ pc = "done" /\ ret.op = "backup" /\ ret.res = "Ok" /\ ret.id = 2
    /\ 1 \in DOMAIN backed_up /\ backed_up[1] = bk.src
    /\ bk.stats.new_chunks = 0
    /\ bk.stats.reused_chunks >= 3


\* C34: the index survives its file. Right after save, loading the file
\* gives back the index that was saved, as the same mapping, and every array
\* of snapshot ids in the file is ascending without duplicates; a load from
\* a path where no file exists returns the empty index and leaves no file.
Ascending(a) == \A i, j \in DOMAIN a : i < j => a[i] < a[j]

C34_IndexRoundTrip ==
    /\ ret.op = "save" =>
          /\ index_json.st = "ok"
          /\ index_load(index_json) = [ok |-> TRUE, index |-> ret.data]
          /\ chunk_refs = ret.data
          /\ \A c \in DOMAIN index_json.val : Ascending(index_json.val[c])
    /\ (ret.op = "load" /\ ret.data = "absent") =>
          /\ ret.res = "Ok"
          /\ chunk_refs = EmptyIndex
          /\ index_json = AbsentFile

\* An index with a chunk of two snapshots and a chunk of one has been saved.
C34_Witness ==
    /\ ret.op = "save"
    /\ \E c, d \in DOMAIN ret.data :
          Cardinality(ret.data[c]) = 2 /\ Cardinality(ret.data[d]) = 1
    /\ \E c \in DOMAIN index_json.val : Len(index_json.val[c]) = 2

\* A load has found no file.
C34_WitnessNoFile == ret.op = "load" /\ ret.data = "absent" /\ ret.res = "Ok"

\* C35: a file whose whole-file hash cannot be computed is skipped: the step
\* that would record it appends no record to the manifest and leaves
\* total_files and total_bytes as they were.
C35_HashFailureSkipsFile ==
    [][(pc = "bk_record" /\ pc' = "bk_walk" /\ bk.path \in bk.unreadable) =>
          /\ bk'.manifest.files = bk.manifest.files
          /\ bk'.manifest.total_files = bk.manifest.total_files
          /\ bk'.manifest.total_bytes = bk.manifest.total_bytes]_vars

\* C36: between commands, when every backup so far returned Ok and no
\* command was cut short, index.json read back is the index rebuilt from the
\* manifests now in snapshots/, in whatever order they are listed.
C36_IndexIsRebuildOfManifests ==
    (pc \in {"idle", "done"} /\ next_id - 1 = Cardinality(DOMAIN backed_up)) =>
        \A order \in Orders(DOMAIN manifests) :
            LET r == rebuild(manifests, order)
            IN  r.ok /\ index_load(index_json) = [ok |-> TRUE, index |-> r.index]

\* Two backups that share a chunk returned Ok, and a delete of all snapshots
\* after them returned Ok.
C36_Witness ==
    /\ pc = "done" /\ ret.op = "delete" /\ ret.res = "Ok" /\ dl.all
    /\ Cardinality(DOMAIN backed_up) = 2
    /\ index_json.st = "ok"
    /\ \E c \in DOMAIN index_json.val : Len(index_json.val[c]) = 2

\* C37: an index built from the empty one by add_snapshot and
\* remove_snapshot has no key with an empty set: is_referenced(c) is true
\* exactly when get_snapshots(c) holds at least one snapshot id, and
\* stats().total_references is at least stats().total_chunks.
C37_NoEmptyReferenceSet ==
    /\ \A c \in DOMAIN chunk_refs : chunk_refs[c] # {}
    /\ \A c \in ChunkIds :
          is_referenced(chunk_refs, c) <=>
              (get_snapshots(chunk_refs, c) # None /\ get_snapshots(chunk_refs, c)[1] # {})
    /\ index_stats(chunk_refs).total_references >= index_stats(chunk_refs).total_chunks

\* A remove_snapshot has taken the last reference of one chunk and left
\* another chunk referenced.
C37_Witness ==
    /\ ret.op = "remove_snapshot" /\ ret.data # {}
    /\ DOMAIN chunk_refs # {}
    /\ index_stats(chunk_refs).total_references > index_stats(chunk_refs).total_chunks

\* A step of a restore command: its start from the command line, or a step
\* taken while it runs (its own, or the one that ends it).
RestoreStep ==
    \/ pc = "idle" /\ (pc' \in {"rs_file", "rs_chunk"} \/ ret'.op = "restore")
    \/ pc \in {"rs_file", "rs_chunk"}

C38_WitnessOk ==
    /\ pc = "done" /\ ret.op = "restore" /\ ret.res = "Ok"
    /\ \E p \in DOMAIN dest : Len(dest[p]) > DEFAULT_CHUNK_SIZE

\* C39, as claimed: when two backups that ran at the same time on one
\* repository have both returned Ok, both manifests exist and index.json
\* maps every chunk of each manifest to a set that holds that manifest's
\* snapshot id.
C39_ConcurrentBackupsBothIndexed ==
    (\A p \in Backups : pc[p] = "done" /\ ret[p].res = "Ok") =>
        /\ \A p \in Backups : p \in Live(manifests)
        /\ index_json.st = "ok"
        /\ \A p \in Backups :
              \A c \in manifest_chunks(manifests[p].val.files) :
                  /\ c \in DOMAIN index_json.val
                  /\ p \in Range(index_json.val[c])

\* C40, as claimed: with backups killed at any point, also between the
\* creation of a chunk file and the end of its write, and no chunk file
\* touched from outside, every snapshot whose backup returned Ok can be
\* restored: each chunk its manifest lists has a file that passes the
\* verification of read.
C40_OkSnapshotsRestorable ==
    \A s \in DOMAIN backed_up :
        /\ s \in Live(manifests)
        /\ \A c \in manifest_chunks(manifests[s].val.files) : read(chunk_files, c).ok
====
